---- MODULE Spec2Model ----
(***************************************************************************)
(* Credit report analyser: the XML-to-record mapper (XMLParser), the       *)
(* structural validator, the date normaliser and the upload handler of     *)
(* CreditReportController, over a store with a unique index on             *)
(* reportNumber.                                                           *)
(*                                                                         *)
(* JavaScript values are tagged records: undefined, strings (sequences of  *)
(* one-character strings), numbers, NaN, objects (functions from keys to   *)
(* values) and arrays (sequences of values).                               *)
(***************************************************************************)
EXTENDS Integers, Sequences, FiniteSets, TLC

VARIABLES call, store, req, nextId, now

vars == <<call, store, req, nextId, now>>

(***************************************************************************)
(* Bounds of the model.                                                    *)
(***************************************************************************)
MaxDateLen == 9
MaxFrags == 3
MaxReqs == 2
MaxClock == 2
MaxCalls == 2

(***************************************************************************)
(* JavaScript values.                                                      *)
(***************************************************************************)
UNDEF == [t |-> "undef"]
Str(s) == [t |-> "str", s |-> s]
Num(n) == [t |-> "num", n |-> n]
NaN == [t |-> "nan"]
Obj(f) == [t |-> "obj", f |-> f]
Arr(q) == [t |-> "arr", q |-> q]

\* An object literal: the keys whose value is undefined are left out.
ObjOf(f) == Obj([k \in {x \in DOMAIN f : f[x] # UNDEF} |-> f[k]])

\* The outcome of a call that may throw; an error message is the sequence of
\* the parts of its template.
Ok(v) == [ok |-> TRUE, v |-> v]
Throw(msg) == [ok |-> FALSE, msg |-> msg]

\* ToBoolean.
Truthy(v) ==
    CASE v.t = "undef" -> FALSE
      [] v.t = "nan" -> FALSE
      [] v.t = "str" -> v.s # <<>>
      [] v.t = "num" -> v.n # 0
      [] OTHER -> TRUE

\* a || b
Or(a, b) == IF Truthy(a) THEN a ELSE b

\* v?.k and, on a value that is not undefined, v.k: own properties only.
Get(v, k) ==
    IF v.t = "obj" /\ k \in DOMAIN v.f THEN v.f[k] ELSE UNDEF

\* v?.[0]
At0(v) ==
    CASE v.t = "arr" -> IF Len(v.q) > 0 THEN v.q[1] ELSE UNDEF
      [] v.t = "str" -> IF Len(v.s) > 0 THEN Str(<<v.s[1]>>) ELSE UNDEF
      [] OTHER -> UNDEF

IsArray(v) == v.t = "arr"

\* v.length
Length(v) ==
    CASE v.t = "str" -> Num(Len(v.s))
      [] v.t = "arr" -> Num(Len(v.q))
      [] OTHER -> Get(v, "length")

DigitChars == <<"0", "1", "2", "3", "4", "5", "6", "7", "8", "9">>
IsDigit(c) == \E d \in 1..10 : DigitChars[d] = c
DigitVal(c) == (CHOOSE d \in 1..10 : DigitChars[d] = c) - 1
IsSpace(c) == c = " "

RECURSIVE DigitsOf(_)
DigitsOf(n) ==
    IF n < 10 THEN <<DigitChars[n + 1]>>
    ELSE DigitsOf(n \div 10) \o <<DigitChars[(n % 10) + 1]>>

RECURSIVE TrimStart(_)
TrimStart(s) ==
    IF s # <<>> /\ IsSpace(s[1]) THEN TrimStart(Tail(s)) ELSE s

RECURSIVE TrimEnd(_)
TrimEnd(s) ==
    IF s # <<>> /\ IsSpace(s[Len(s)]) THEN TrimEnd(SubSeq(s, 1, Len(s) - 1)) ELSE s

\* String.prototype.trim
Trim(s) == TrimEnd(TrimStart(s))

ObjectObject == <<"[", "o", "b", "j", "e", "c", "t", " ", "O", "b", "j", "e", "c", "t", "]">>

RECURSIVE ToStr(_)
RECURSIVE Join(_)
\* String(v), as parseInt applies it to its argument.
ToStr(v) ==
    CASE v.t = "str" -> v.s
      [] v.t = "num" -> IF v.n < 0 THEN <<"-">> \o DigitsOf(0 - v.n) ELSE DigitsOf(v.n)
      [] v.t = "nan" -> <<"N", "a", "N">>
      [] v.t = "undef" -> <<"u", "n", "d", "e", "f", "i", "n", "e", "d">>
      [] v.t = "arr" -> Join(v.q)
      [] OTHER -> ObjectObject
Join(q) ==
    IF q = <<>> THEN <<>>
    ELSE IF Len(q) = 1 THEN ToStr(q[1])
    ELSE ToStr(q[1]) \o <<",">> \o Join(Tail(q))

RECURSIVE DigitPrefix(_)
DigitPrefix(s) ==
    IF s # <<>> /\ IsDigit(s[1]) THEN <<s[1]>> \o DigitPrefix(Tail(s)) ELSE <<>>

RECURSIVE DecimalValue(_)
DecimalValue(d) ==
    IF d = <<>> THEN 0
    ELSE 10 * DecimalValue(SubSeq(d, 1, Len(d) - 1)) + DigitVal(d[Len(d)])

\* parseInt(v, 10): leading white space, an optional sign, then the longest
\* run of decimal digits; NaN when there is none.
parseInt(v) ==
    LET s == TrimStart(ToStr(v))
        signed == s # <<>> /\ s[1] \in {"+", "-"}
        body == IF signed THEN Tail(s) ELSE s
        d == DigitPrefix(body)
    IN  IF d = <<>> THEN NaN
        ELSE IF signed /\ s[1] = "-" THEN Num(0 - DecimalValue(d))
        ELSE Num(DecimalValue(d))

(***************************************************************************)
(* XMLParser (utils/xmlParser.ts).                                         *)
(***************************************************************************)
EmptyString == Str(<<>>)
Zero == Str(<<"0">>)

\* String.prototype.includes
Includes(text, pat) ==
    \E i \in 1..(Len(text) - Len(pat) + 1) : SubSeq(text, i, i + Len(pat) - 1) = pat

RootMarker ==
    <<"<", "I", "N", "P", "r", "o", "f", "i", "l", "e",
      "R", "e", "s", "p", "o", "n", "s", "e", ">">>
CreditProfileHeaderName ==
    <<"C", "r", "e", "d", "i", "t", "P", "r", "o", "f", "i", "l", "e",
      "H", "e", "a", "d", "e", "r">>
CurrentApplicationName ==
    <<"C", "u", "r", "r", "e", "n", "t", "_",
      "A", "p", "p", "l", "i", "c", "a", "t", "i", "o", "n">>
CaisAccountName ==
    <<"C", "A", "I", "S", "_", "A", "c", "c", "o", "u", "n", "t">>

requiredSections == <<CreditProfileHeaderName, CurrentApplicationName, CaisAccountName>>

validateXMLStructure_Every(xmlContent) ==
    IF ~Includes(xmlContent, RootMarker) THEN FALSE
    ELSE \A i \in 1..Len(requiredSections) : Includes(xmlContent, requiredSections[i])

validateXMLStructure(xmlContent) ==
    IF ~Includes(xmlContent, RootMarker) THEN FALSE
    ELSE \E i \in 1..Len(requiredSections) : Includes(xmlContent, requiredSections[i])

formatDate_NoLengthCheck(dateString) ==
    IF ~Truthy(dateString) THEN Ok(dateString)
    ELSE IF dateString.t # "str" THEN Throw(<<"dateString.substring is not a function">>)
    ELSE LET n == Len(dateString.s)
             sub(a, b) == SubSeq(dateString.s, a + 1, IF b > n THEN n ELSE b)
         IN  Ok(Str(sub(0, 4) \o <<"-">> \o sub(4, 6) \o <<"-">> \o sub(6, 8)))

\* YYYYMMDD to YYYY-MM-DD; any value whose length is not 8 is returned as it is.
formatDate(dateString) ==
    IF ~Truthy(dateString) \/ Length(dateString) # Num(8) THEN Ok(dateString)
    ELSE IF dateString.t # "str" THEN Throw(<<"dateString.substring is not a function">>)
    ELSE LET year == SubSeq(dateString.s, 1, 4)
             month == SubSeq(dateString.s, 5, 6)
             day == SubSeq(dateString.s, 7, 8)
         IN  Ok(Str(year \o <<"-">> \o month \o <<"-">> \o day))

\* new Date().toISOString().split('T')[0] at clock reading n.
IsoDate(n) ==
    Str(<<"2", "0", "2", "6", "-", "0", "1", "-", "0">> \o <<DigitChars[(n % 9) + 2]>>)

\* new Date().toTimeString().split(' ')[0] at clock reading n.
ClockTime(n) ==
    Str(<<"1", "2", ":", "0", "0", ":", "0">> \o <<DigitChars[(n % 10) + 1]>>)

extractReportNumber_HeaderFirst(data, n) ==
    Or(Or(Get(Get(data, "Header"), "ReportNumber"),
          Get(Get(data, "CreditProfileHeader"), "ReportNumber")),
       Str(<<"R", "P", "T", "_">> \o DigitsOf(n)))

extractReportNumber(data, n) ==
    Or(Or(Get(Get(data, "CreditProfileHeader"), "ReportNumber"),
          Get(Get(data, "Header"), "ReportNumber")),
       Str(<<"R", "P", "T", "_">> \o DigitsOf(n)))

extractReportDate(data, n) ==
    Or(Or(Get(Get(data, "CreditProfileHeader"), "ReportDate"),
          Get(Get(data, "Header"), "ReportDate")),
       IsoDate(n))

extractReportTime(data, n) ==
    Or(Or(Get(Get(data, "CreditProfileHeader"), "ReportTime"),
          Get(Get(data, "Header"), "ReportTime")),
       ClockTime(n))

extractVersion(data) ==
    Or(Get(Get(data, "CreditProfileHeader"), "Version"), Str(<<"V", "2", ".", "4">>))

basicDetailsOf_SurnameFirst(currentApplicant, holderDetails, phoneDetails, dateOfBirth) ==
    IF ~dateOfBirth.ok THEN dateOfBirth
    ELSE Ok([firstName |->
                 Or(Or(Or(Get(currentApplicant, "First_Name"),
                          Get(holderDetails, "Surname_Non_Normalized")),
                       Get(holderDetails, "First_Name_Non_Normalized")), EmptyString),
             lastName |->
                 Or(Or(Or(Get(currentApplicant, "Last_Name"),
                          Get(holderDetails, "Surname_Non_Normalized")),
                       Get(holderDetails, "First_Name_Non_Normalized")), EmptyString),
             mobilePhone |->
                 Or(Or(Get(currentApplicant, "MobilePhoneNumber"),
                       Get(phoneDetails, "Telephone_Number")), EmptyString),
             pan |->
                 Or(Or(Get(currentApplicant, "IncomeTaxPan"),
                       Get(holderDetails, "Income_TAX_PAN")), EmptyString),
             dateOfBirth |-> dateOfBirth.v,
             gender |->
                 IF Get(holderDetails, "Gender_Code") = Str(<<"1">>)
                 THEN Str(<<"M", "a", "l", "e">>)
                 ELSE IF Get(holderDetails, "Gender_Code") = Str(<<"2">>)
                 THEN Str(<<"F", "e", "m", "a", "l", "e">>)
                 ELSE EmptyString])

\* The object literal of extractBasicDetails, from the sections it reads.
basicDetailsOf(currentApplicant, holderDetails, phoneDetails, dateOfBirth) ==
    IF ~dateOfBirth.ok THEN dateOfBirth
    ELSE Ok([firstName |->
                 Or(Or(Or(Get(currentApplicant, "First_Name"),
                          Get(holderDetails, "First_Name_Non_Normalized")),
                       Get(holderDetails, "Surname_Non_Normalized")), EmptyString),
             lastName |->
                 Or(Or(Or(Get(currentApplicant, "Last_Name"),
                          Get(holderDetails, "Surname_Non_Normalized")),
                       Get(holderDetails, "First_Name_Non_Normalized")), EmptyString),
             mobilePhone |->
                 Or(Or(Get(currentApplicant, "MobilePhoneNumber"),
                       Get(phoneDetails, "Telephone_Number")), EmptyString),
             pan |->
                 Or(Or(Get(currentApplicant, "IncomeTaxPan"),
                       Get(holderDetails, "Income_TAX_PAN")), EmptyString),
             dateOfBirth |-> dateOfBirth.v,
             gender |->
                 IF Get(holderDetails, "Gender_Code") = Str(<<"1">>)
                 THEN Str(<<"M", "a", "l", "e">>)
                 ELSE IF Get(holderDetails, "Gender_Code") = Str(<<"2">>)
                 THEN Str(<<"F", "e", "m", "a", "l", "e">>)
                 ELSE EmptyString])

\* const holderDetails = details?.[0]?.CAIS_Holder_Details || (Array.isArray(details) ? ... : ...)
holderDetailsOf(details) ==
    Or(Get(At0(details), "CAIS_Holder_Details"),
       IF IsArray(details) THEN Get(At0(details), "CAIS_Holder_Details")
       ELSE Get(details, "CAIS_Holder_Details"))

dateOfBirthOf(currentApplicant, holderDetails) ==
    formatDate(Or(Or(Get(currentApplicant, "Date_Of_Birth_Applicant"),
                     Get(holderDetails, "Date_of_birth")), EmptyString))

basicDetailsFrom(currentApplicant, holderDetails, details) ==
    basicDetailsOf(currentApplicant, holderDetails,
                   Get(At0(details), "CAIS_Holder_Phone_Details"),
                   dateOfBirthOf(currentApplicant, holderDetails))

accountDetailsOf(data) == Get(Get(data, "CAIS_Account"), "CAIS_Account_DETAILS")

extractBasicDetails(data) ==
    basicDetailsFrom(
        Get(Get(Get(data, "Current_Application"), "Current_Application_Details"),
            "Current_Applicant_Details"),
        holderDetailsOf(accountDetailsOf(data)),
        accountDetailsOf(data))

countOf(section, k) == parseInt(Or(Get(section, k), Zero))

enquiriesOf(capsSummary, totalCapsSummary, k, tk) ==
    parseInt(Or(Or(Get(capsSummary, k), Get(totalCapsSummary, tk)), Zero))

reportSummaryOf(creditAccount, outstanding, capsSummary, totalCapsSummary) ==
    [totalAccounts |-> countOf(creditAccount, "CreditAccountTotal"),
     activeAccounts |-> countOf(creditAccount, "CreditAccountActive"),
     closedAccounts |-> countOf(creditAccount, "CreditAccountClosed"),
     defaultAccounts |-> countOf(creditAccount, "CreditAccountDefault"),
     outstandingBalanceSecured |-> countOf(outstanding, "Outstanding_Balance_Secured"),
     outstandingBalanceUnsecured |-> countOf(outstanding, "Outstanding_Balance_UnSecured"),
     outstandingBalanceAll |-> countOf(outstanding, "Outstanding_Balance_All"),
     enquiriesLast7Days |->
         enquiriesOf(capsSummary, totalCapsSummary, "CAPSLast7Days", "TotalCAPSLast7Days"),
     enquiriesLast30Days |->
         enquiriesOf(capsSummary, totalCapsSummary, "CAPSLast30Days", "TotalCAPSLast30Days"),
     enquiriesLast90Days |->
         enquiriesOf(capsSummary, totalCapsSummary, "CAPSLast90Days", "TotalCAPSLast90Days"),
     enquiriesLast180Days |->
         enquiriesOf(capsSummary, totalCapsSummary, "CAPSLast180Days", "TotalCAPSLast180Days")]

caisSummaryOf(data) == Get(Get(data, "CAIS_Account"), "CAIS_Summary")

extractReportSummary(data) ==
    reportSummaryOf(Get(caisSummaryOf(data), "Credit_Account"),
                    Get(caisSummaryOf(data), "Total_Outstanding_Balance"),
                    Get(Get(data, "CAPS"), "CAPS_Summary"),
                    Get(data, "TotalCAPS_Summary"))

historyItem(item) ==
    [year |-> parseInt(Or(Get(item, "Year"), Zero)),
     month |-> parseInt(Or(Get(item, "Month"), Zero)),
     daysPastDue |-> parseInt(Or(Get(item, "Days_Past_Due"), Zero)),
     assetClassification |-> Or(Get(item, "Asset_Classification"), UNDEF)]

mapHistory(history) == [i \in 1..Len(history) |-> historyItem(history[i])]

extractAccountHistory(historyData) ==
    IF ~Truthy(historyData) THEN <<>>
    ELSE mapHistory(IF IsArray(historyData) THEN historyData.q ELSE <<historyData>>)

addressOf(holderAddress) ==
    [firstLine |-> Or(Get(holderAddress, "First_Line_Of_Address_non_normalized"), EmptyString),
     secondLine |-> Or(Get(holderAddress, "Second_Line_Of_Address_non_normalized"), EmptyString),
     thirdLine |-> Or(Get(holderAddress, "Third_Line_Of_Address_non_normalized"), EmptyString),
     city |-> Or(Get(holderAddress, "City_non_normalized"), EmptyString),
     state |-> Or(Get(holderAddress, "State_non_normalized"), EmptyString),
     pinCode |-> Or(Get(holderAddress, "ZIP_Postal_Code_non_normalized"), EmptyString),
     country |-> Or(Get(holderAddress, "CountryCode_non_normalized"), Str(<<"I", "B">>))]

\* account.Subscriber_Name?.trim() || ''
subscriberNameOf(name) ==
    IF name.t = "undef" THEN Ok(EmptyString)
    ELSE IF name.t = "str" THEN Ok(Or(Str(Trim(name.s)), EmptyString))
    ELSE Throw(<<"account.Subscriber_Name?.trim is not a function">>)

\* account.Date_Closed ? this.formatDate(account.Date_Closed) : ''
dateClosedOf(closed) ==
    IF Truthy(closed) THEN formatDate(closed) ELSE Ok(EmptyString)

\* The object literal of one mapped account: its fields are evaluated in
\* order, so the first throw is the one raised.
accountOf(account, subscriberName, openDate, dateReported, dateClosed) ==
    IF ~subscriberName.ok THEN subscriberName
    ELSE IF ~openDate.ok THEN openDate
    ELSE IF ~dateReported.ok THEN dateReported
    ELSE IF ~dateClosed.ok THEN dateClosed
    ELSE Ok([subscriberName |-> subscriberName.v,
             accountNumber |-> Or(Get(account, "Account_Number"), EmptyString),
             portfolioType |-> Or(Get(account, "Portfolio_Type"), EmptyString),
             accountType |-> Or(Get(account, "Account_Type"), EmptyString),
             openDate |-> openDate.v,
             creditLimit |->
                 Or(parseInt(Or(Get(account, "Credit_Limit_Amount"), Zero)), Num(0)),
             highestCredit |->
                 Or(parseInt(Or(Get(account, "Highest_Credit_or_Original_Loan_Amount"),
                                Zero)), Num(0)),
             currentBalance |-> parseInt(Or(Get(account, "Current_Balance"), Zero)),
             amountPastDue |-> parseInt(Or(Get(account, "Amount_Past_Due"), Zero)),
             accountStatus |-> Or(Get(account, "Account_Status"), EmptyString),
             paymentRating |-> Or(Get(account, "Payment_Rating"), EmptyString),
             dateReported |-> dateReported.v,
             dateClosed |-> dateClosed.v,
             repaymentTenure |->
                 Or(parseInt(Or(Get(account, "Repayment_Tenure"), Zero)), Num(0)),
             address |-> addressOf(Get(account, "CAIS_Holder_Address_Details")),
             accountHistory |-> extractAccountHistory(Get(account, "CAIS_Account_History"))])

\* The callback of accounts.map(...).
mapAccount(account) ==
    accountOf(account,
              subscriberNameOf(Get(account, "Subscriber_Name")),
              formatDate(Or(Get(account, "Open_Date"), EmptyString)),
              formatDate(Or(Get(account, "Date_Reported"), EmptyString)),
              dateClosedOf(Get(account, "Date_Closed")))

\* The result of a map whose callback may throw: the mapped entries, or the
\* throw of the first entry that throws.
collect(mapped) ==
    IF \E i \in 1..Len(mapped) : ~mapped[i].ok
    THEN mapped[CHOOSE i \in 1..Len(mapped) :
                    ~mapped[i].ok /\ \A j \in 1..(i - 1) : mapped[j].ok]
    ELSE Ok([i \in 1..Len(mapped) |-> mapped[i].v])

mapAccounts(accounts) == collect([i \in 1..Len(accounts) |-> mapAccount(accounts[i])])

accountList_NoArrayCheck(accountsData) ==
    IF ~Truthy(accountsData) THEN Ok(<<>>)
    ELSE mapAccounts(<<accountsData>>)

\* if (!accountsData) return []; Array.isArray(accountsData) ? accountsData : [accountsData]
accountList(accountsData) ==
    IF ~Truthy(accountsData) THEN Ok(<<>>)
    ELSE mapAccounts(IF IsArray(accountsData) THEN accountsData.q ELSE <<accountsData>>)

extractCreditAccounts(data) == accountList(accountDetailsOf(data))

scoreOf_DefaultZero(score) == parseInt(Or(score, Zero))

\* score ? parseInt(score, 10) : undefined
scoreOf(score) == IF Truthy(score) THEN parseInt(score) ELSE UNDEF

extractCreditScore(data) == scoreOf(Get(Get(data, "SCORE"), "BureauScore"))

extractCreditScoreConfidence(data) ==
    Or(Get(Get(data, "SCORE"), "BureauScoreConfidLevel"), UNDEF)

\* What parser.parseStringPromise made of the text: a tree, null for a text
\* with no element, or a rejection for a text that is not well formed.
Malformed == [t |-> "malformed"]
NullResult == [t |-> "null"]

RootNotFound == <<"Invalid XML format: INProfileResponse not found">>

\* The object literal that parseXML returns.
parsedDataOf(profileResponse, n, basicDetails, creditAccounts) ==
    IF ~basicDetails.ok THEN basicDetails
    ELSE IF ~creditAccounts.ok THEN creditAccounts
    ELSE Ok([reportNumber |-> extractReportNumber(profileResponse, n),
             reportDate |-> extractReportDate(profileResponse, n),
             reportTime |-> extractReportTime(profileResponse, n),
             version |-> extractVersion(profileResponse),
             basicDetails |-> basicDetails.v,
             reportSummary |-> extractReportSummary(profileResponse),
             creditAccounts |-> creditAccounts.v,
             creditScore |-> extractCreditScore(profileResponse),
             creditScoreConfidence |-> extractCreditScoreConfidence(profileResponse)])

mapProfile(profileResponse, n) ==
    parsedDataOf(profileResponse, n, extractBasicDetails(profileResponse),
                 extractCreditAccounts(profileResponse))

parseTree_NoRootCheck(result, n) ==
    IF result = Malformed THEN Throw(<<"Unclosed root tag">>)
    ELSE IF result = NullResult
         THEN Throw(<<"Cannot read properties of null (reading 'INProfileResponse')">>)
    ELSE mapProfile(Get(result, "INProfileResponse"), n)

\* The try block of parseXML.
parseTree(result, n) ==
    IF result = Malformed THEN Throw(<<"Unclosed root tag">>)
    ELSE IF result = NullResult
         THEN Throw(<<"Cannot read properties of null (reading 'INProfileResponse')">>)
    ELSE IF ~Truthy(Get(result, "INProfileResponse")) THEN Throw(RootNotFound)
    ELSE mapProfile(Get(result, "INProfileResponse"), n)

rethrow_Unwrapped(r) == r

\* The catch block of parseXML: throw new Error(`Failed to parse XML: ${error.message}`).
rethrow(r) == IF r.ok THEN r ELSE Throw(<<"Failed to parse XML: ">> \o r.msg)

parseXML(result, n) == rethrow(parseTree(result, n))

(***************************************************************************)
(* Inputs: texts, date strings and parsed trees.                           *)
(***************************************************************************)
SeqsUpTo(S, n) == UNION {[1..k -> S] : k \in 0..n}

RECURSIVE Flatten(_)
Flatten(fs) == IF fs = <<>> THEN <<>> ELSE Head(fs) \o Flatten(Tail(fs))

Tag(name) == <<"<">> \o name \o <<">">>

\* Pieces of document text; "<INProfileResponse" followed by ">" is the root tag.
Fragments ==
    { <<"<", "I", "N", "P", "r", "o", "f", "i", "l", "e",
        "R", "e", "s", "p", "o", "n", "s", "e">>,
      <<">">>,
      <<" ", "v", "=", "'", "1", "'", ">">>,
      Tag(CreditProfileHeaderName),
      Tag(CurrentApplicationName),
      Tag(CaisAccountName),
      <<"<", "S", "C", "O", "R", "E", ">">>,
      <<"<", "i", "n", "v", "a", "l", "i", "d", ">", "c", "o", "n", "t", "e", "n", "t",
        "<", "/", "i", "n", "v", "a", "l", "i", "d", ">">> }

Texts == {Flatten(fs) : fs \in SeqsUpTo(Fragments, MaxFrags)}

DateChars == {"0", "7", "-"}

RepeatedDate ==
    Arr([i \in 1..8 |-> Str(<<"2", "0", "2", "0", "0", "7", "2", "3">>)])

\* An element that carries an attribute: { _: text, $: { lang: 'en' } }.
WithAttribute(text) ==
    Obj(("_" :> Str(text)) @@ ("$" :> Obj("lang" :> Str(<<"e", "n">>))))

DateInputs ==
    {Str(s) : s \in SeqsUpTo(DateChars, MaxDateLen)}
        \cup {UNDEF, RepeatedDate, WithAttribute(<<"2", "0", "2", "0", "0", "7", "2", "3">>)}

N1 == Str(<<"1", "5", "9", "5">>)
N2 == Str(<<"7", "7", "0", "1">>)
Date8 == Str(<<"2", "0", "2", "0", "0", "7", "2", "3">>)
DateIso == Str(<<"2", "0", "2", "0", "-", "0", "7", "-", "2", "3">>)
Birth8 == Str(<<"1", "9", "8", "2", "0", "3", "2", "2">>)
Time6 == Str(<<"1", "7", "1", "5", "5", "9">>)
Icici == Str(<<" ", "I", "C", "I", "C", "I", " ">>)
Sagar == Str(<<"S", "a", "g", "a", "r">>)
Ugle == Str(<<"U", "g", "l", "e">>)
Pan == Str(<<"A", "O", "Z", "P", "B">>)
Phone == Str(<<"9", "8", "1", "9">>)
Text(c) == Str(<<c>>)

HolderAddress ==
    ObjOf([First_Line_Of_Address_non_normalized |-> Str(<<"A", "N", "A", "N", "D", "I">>),
           City_non_normalized |-> Str(<<"P", "U", "N", "E">>),
           State_non_normalized |-> Str(<<"2", "7">>),
           ZIP_Postal_Code_non_normalized |-> Str(<<"4", "1", "1">>),
           CountryCode_non_normalized |-> Str(<<"I", "B">>)])

History1 ==
    ObjOf([Year |-> Str(<<"2", "0", "2", "0">>), Month |-> Str(<<"0", "7">>),
           Days_Past_Due |-> Str(<<"3", "0">>), Asset_Classification |-> Text("S")])

History2 ==
    ObjOf([Year |-> Str(<<"2", "0", "2", "0">>), Month |-> Str(<<"0", "6">>),
           Days_Past_Due |-> UNDEF, Asset_Classification |-> UNDEF])

HolderDetails ==
    ObjOf([First_Name_Non_Normalized |-> Sagar, Surname_Non_Normalized |-> Ugle,
           Income_TAX_PAN |-> Pan, Date_of_birth |-> Birth8, Gender_Code |-> Text("1")])

\* One CAIS_Account_DETAILS entry; full adds the remaining account fields.
AccountEntry(name, openDate, limit, balance, addr, hist, holder, full) ==
    ObjOf([Subscriber_Name |-> name,
           Open_Date |-> openDate,
           Credit_Limit_Amount |-> limit,
           Current_Balance |-> balance,
           CAIS_Holder_Address_Details |-> addr,
           CAIS_Account_History |-> hist,
           CAIS_Holder_Details |-> holder,
           Account_Number |-> IF full THEN Str(<<"I", "C", "I", "V", "B">>) ELSE UNDEF,
           Portfolio_Type |-> IF full THEN Text("R") ELSE UNDEF,
           Account_Type |-> IF full THEN Str(<<"1", "0">>) ELSE UNDEF,
           Highest_Credit_or_Original_Loan_Amount |->
               IF full THEN Str(<<"9", "0", "0">>) ELSE UNDEF,
           Amount_Past_Due |-> IF full THEN Str(<<"4", "0", "0", "0">>) ELSE UNDEF,
           Account_Status |-> IF full THEN Str(<<"1", "1">>) ELSE UNDEF,
           Payment_Rating |-> IF full THEN Text("0") ELSE UNDEF,
           Date_Reported |-> IF full THEN Date8 ELSE UNDEF,
           Date_Closed |-> IF full THEN DateIso ELSE UNDEF,
           Repayment_Tenure |-> IF full THEN Str(<<"1", "2">>) ELSE UNDEF])

AccountEntries ==
    { AccountEntry(name, openDate, limit, balance, addr, hist, holder, full) :
        name \in {UNDEF, Icici, WithAttribute(<<"I", "C", "I", "C", "I">>)},
        openDate \in {UNDEF, Date8, DateIso, RepeatedDate},
        limit \in {UNDEF, EmptyString, Str(<<"5", "0", "0", "0">>)},
        balance \in {UNDEF, Str(<<"8", "0", "0", "0", "0">>), Str(<<"a", "b", "c">>)},
        addr \in {UNDEF, HolderAddress, Arr(<<HolderAddress>>)},
        hist \in {UNDEF, History1, Arr(<<History1, History2>>)},
        holder \in {UNDEF, HolderDetails},
        full \in BOOLEAN }

CompleteAccount ==
    AccountEntry(Icici, Date8, Str(<<"5", "0", "0", "0">>), Str(<<"8", "0", "0", "0", "0">>),
                 HolderAddress, History1, HolderDetails, TRUE)

\* The account of the test fixture: no dates, status or rating.
FixtureAccount ==
    ObjOf([Subscriber_Name |-> Icici,
           Account_Number |-> Str(<<"I", "C", "I", "V", "B">>),
           Portfolio_Type |-> Text("R"),
           Account_Type |-> Str(<<"1", "0">>),
           Current_Balance |-> Str(<<"8", "0", "0", "0", "0">>),
           Amount_Past_Due |-> Str(<<"4", "0", "0", "0">>),
           CAIS_Holder_Address_Details |-> HolderAddress])

BadShapeAccount ==
    AccountEntry(WithAttribute(<<"I", "C", "I", "C", "I">>), Date8, UNDEF,
                 Str(<<"8", "0", "0", "0", "0">>), HolderAddress, UNDEF, UNDEF, TRUE)

HeaderOf(number) ==
    ObjOf([ReportNumber |-> number, ReportDate |-> Date8, ReportTime |-> Time6,
           Version |-> Str(<<"V", "2", ".", "4">>)])

\* A Header section whose values differ from those of HeaderOf.
AltHeader ==
    ObjOf([ReportNumber |-> N2, ReportDate |-> Birth8,
           ReportTime |-> Str(<<"0", "9", "3", "0", "0", "0">>),
           Version |-> Str(<<"V", "3", ".", "0">>)])

Applicant(pan) ==
    ObjOf([Current_Application_Details |->
             ObjOf([Current_Applicant_Details |->
                      ObjOf([First_Name |-> Sagar, Last_Name |-> Ugle,
                             MobilePhoneNumber |-> Phone, IncomeTaxPan |-> pan,
                             Date_Of_Birth_Applicant |-> Birth8])])])

CaisSummary ==
    ObjOf([Credit_Account |->
             ObjOf([CreditAccountTotal |-> Text("4"), CreditAccountActive |-> Text("3"),
                    CreditAccountClosed |-> Text("1")]),
           Total_Outstanding_Balance |->
             ObjOf([Outstanding_Balance_All |-> Str(<<"2", "4", "5">>)])])

Cais(summary, details) ==
    IF summary = UNDEF /\ details = UNDEF THEN UNDEF
    ELSE ObjOf([CAIS_Summary |-> summary, CAIS_Account_DETAILS |-> details])

Score(bureauScore, level) ==
    ObjOf([BureauScore |-> bureauScore, BureauScoreConfidLevel |-> level])

Profile(header, altHeader, applicant, cais, score) ==
    ObjOf([CreditProfileHeader |-> header, Header |-> altHeader,
           Current_Application |-> applicant, CAIS_Account |-> cais, SCORE |-> score])

Document(profileResponse) == ObjOf([INProfileResponse |-> profileResponse])

Profiles ==
    { Profile(header, altHeader, applicant, Cais(summary, details), score) :
        header \in {UNDEF, EmptyString, HeaderOf(N1), HeaderOf(UNDEF), HeaderOf(EmptyString)},
        altHeader \in {UNDEF, AltHeader},
        applicant \in {UNDEF, Applicant(Pan), Applicant(UNDEF)},
        summary \in {UNDEF, CaisSummary},
        details \in {UNDEF, EmptyString, CompleteAccount, Arr(<<CompleteAccount>>),
                     Arr(<<FixtureAccount, CompleteAccount>>), FixtureAccount,
                     BadShapeAccount, Arr(<<CompleteAccount, BadShapeAccount>>),
                     AccountEntry(UNDEF, RepeatedDate, UNDEF, UNDEF, UNDEF, UNDEF, UNDEF, FALSE)},
        score \in {UNDEF, EmptyString, Score(Str(<<"7", "1", "9">>), Text("H")),
                   Score(Zero, UNDEF), Score(EmptyString, Text("H")),
                   Score(UNDEF, Text("L")), Score(Str(<<"a", "b", "c">>), UNDEF)} }

\* The tree of the test's sampleXML.
SampleTree ==
    Document(ObjOf(
        [CreditProfileHeader |->
            ObjOf([ReportNumber |-> Str(<<"1", "5", "9", "5", "5", "0", "4", "7", "5", "8", "9", "1", "9">>),
                   ReportDate |-> Date8, ReportTime |-> Time6,
                   Version |-> Str(<<"V", "2", ".", "4">>)]),
         Current_Application |->
            ObjOf([Current_Application_Details |->
                ObjOf([Current_Applicant_Details |->
                    ObjOf([First_Name |-> Sagar, Last_Name |-> Ugle,
                           MobilePhoneNumber |-> Str(<<"9", "8", "1", "9", "1", "3", "7", "6", "7", "2">>),
                           IncomeTaxPan |-> Str(<<"A", "O", "Z", "P", "B", "0", "2", "4", "7", "S">>),
                           Date_Of_Birth_Applicant |-> Birth8])])]),
         CAIS_Account |->
            ObjOf([CAIS_Summary |->
                     ObjOf([Credit_Account |->
                              ObjOf([CreditAccountTotal |-> Text("4"),
                                     CreditAccountActive |-> Text("3"),
                                     CreditAccountClosed |-> Text("1")]),
                            Total_Outstanding_Balance |->
                              ObjOf([Outstanding_Balance_All |-> Str(<<"2", "4", "5", "0", "0", "0">>)])]),
                   CAIS_Account_DETAILS |->
                     ObjOf([Subscriber_Name |-> Str(<<"I", "C", "I", "C", "I", " ", "B", "a", "n", "k">>),
                            Account_Number |-> Str(<<"I", "C", "I", "V", "B", "2", "0", "9", "9", "4">>),
                            Portfolio_Type |-> Text("R"),
                            Account_Type |-> Str(<<"1", "0">>),
                            Current_Balance |-> Str(<<"8", "0", "0", "0", "0">>),
                            Amount_Past_Due |-> Str(<<"4", "0", "0", "0">>),
                            CAIS_Holder_Address_Details |->
                              ObjOf([First_Line_Of_Address_non_normalized |-> Str(<<"A", "N", "A", "N", "D", "I", " ", "V", "I", "H", "A", "R">>),
                                     City_non_normalized |-> Str(<<"P", "U", "N", "E">>),
                                     State_non_normalized |-> Str(<<"2", "7">>),
                                     ZIP_Postal_Code_non_normalized |-> Str(<<"4", "1", "1", "0", "4", "7">>),
                                     CountryCode_non_normalized |-> Str(<<"I", "B">>)])])]),
         SCORE |-> Score(Str(<<"7", "1", "9">>), Text("H"))]))

\* What the XML-to-tree conversion can hand to the mapper.
Trees ==
    {Document(p) : p \in Profiles}
        \cup {SampleTree, Document(EmptyString),
              ObjOf([Wrapper |-> Document(Profile(HeaderOf(N1), UNDEF, UNDEF, UNDEF, UNDEF))]),
              ObjOf([invalid |-> Str(<<"c", "o", "n", "t", "e", "n", "t">>)]),
              NullResult, Malformed}

DataWithAccounts(details) == ObjOf([CAIS_Account |-> ObjOf([CAIS_Account_DETAILS |-> details])])

(***************************************************************************)
(* The pure functions, applied to inputs.                                  *)
(***************************************************************************)
Idle == [op |-> "none"]

CallValidate ==
    /\ call = Idle
    /\ \E text \in Texts :
         call' = [op |-> "validateXMLStructure", in |-> text,
                  out |-> validateXMLStructure(text)]
    /\ UNCHANGED <<store, req, nextId, now>>

CallFormatDate ==
    /\ call = Idle
    /\ \E d \in DateInputs :
         call' = [op |-> "formatDate", in |-> d, out |-> formatDate(d)]
    /\ UNCHANGED <<store, req, nextId, now>>

CallParse ==
    /\ call = Idle
    /\ \E tree \in Trees, n \in 0..MaxClock :
         call' = [op |-> "parseXML", in |-> tree, at |-> n, out |-> parseXML(tree, n)]
    /\ UNCHANGED <<store, req, nextId, now>>

CallAccounts ==
    /\ call = Idle
    /\ \E entry \in AccountEntries :
         call' = [op |-> "extractCreditAccounts", in |-> entry,
                  single |-> extractCreditAccounts(DataWithAccounts(entry)),
                  array |-> extractCreditAccounts(DataWithAccounts(Arr(<<entry>>)))]
    /\ UNCHANGED <<store, req, nextId, now>>

\* extractBasicDetails over an applicant section and one account entry that
\* holds the holder's details and phone, the entry given as the single object
\* and as the one-element array.
CallBasicDetails ==
    /\ call = Idle
    /\ \E applicant \in
             {UNDEF} \cup
             { ObjOf([Current_Application_Details |->
                        ObjOf([Current_Applicant_Details |->
                                 ObjOf([First_Name |-> first, Last_Name |-> last,
                                        MobilePhoneNumber |-> mobile])])]) :
                 first \in {UNDEF, EmptyString, Sagar},
                 last \in {UNDEF, Ugle},
                 mobile \in {UNDEF, Phone} },
          entry \in
             { ObjOf([CAIS_Holder_Details |-> holder, CAIS_Holder_Phone_Details |-> phone]) :
                 holder \in
                   {UNDEF} \cup
                   { ObjOf([First_Name_Non_Normalized |-> first,
                            Surname_Non_Normalized |-> last,
                            Gender_Code |-> code,
                            Income_TAX_PAN |-> Pan,
                            Date_of_birth |-> Birth8]) :
                       first \in {UNDEF, EmptyString, Str(<<"R", "a", "v", "i">>)},
                       last \in {UNDEF, Str(<<"R", "a", "o">>)},
                       code \in {UNDEF, Text("1"), Text("2"), Text("3")} },
                 phone \in {UNDEF, ObjOf([Telephone_Number |-> Str(<<"2", "2", "4", "5">>)])} } :
         call' =
           [op |-> "extractBasicDetails",
            applicant |-> applicant,
            in |-> entry,
            single |->
              extractBasicDetails(
                  ObjOf([Current_Application |-> applicant,
                         CAIS_Account |-> ObjOf([CAIS_Account_DETAILS |-> entry])])),
            array |->
              extractBasicDetails(
                  ObjOf([Current_Application |-> applicant,
                         CAIS_Account |-> ObjOf([CAIS_Account_DETAILS |-> Arr(<<entry>>)])]))]
    /\ UNCHANGED <<store, req, nextId, now>>

NextParser == CallValidate \/ CallFormatDate \/ CallParse \/ CallAccounts \/ CallBasicDetails

(***************************************************************************)
(* The uploaded documents: the text the validator reads and the tree the   *)
(* XML-to-tree conversion makes of it.                                     *)
(***************************************************************************)
DocNames ==
    {"complete", "variant", "fixture", "nonumber", "barefixture", "invalid", "wrapped",
     "badshape"}

SectionsText ==
    RootMarker \o Tag(CreditProfileHeaderName) \o Tag(CurrentApplicationName)
        \o Tag(CaisAccountName)

DocText(d) ==
    CASE d = "invalid" ->
           <<"<", "i", "n", "v", "a", "l", "i", "d", ">", "c", "o", "n", "t", "e", "n", "t",
             "<", "/", "i", "n", "v", "a", "l", "i", "d", ">">>
      [] d = "wrapped" -> <<"<", "W", "r", "a", "p", "p", "e", "r", ">">> \o SectionsText
      [] d = "variant" -> RootMarker \o Tag(CaisAccountName)
      [] OTHER -> SectionsText

DocTree(d) ==
    CASE d = "complete" ->
           Document(Profile(HeaderOf(N1), UNDEF, Applicant(Pan),
                            Cais(CaisSummary, CompleteAccount),
                            Score(Str(<<"7", "1", "9">>), Text("H"))))
      [] d = "variant" ->
           Document(Profile(UNDEF, HeaderOf(N1), UNDEF,
                            Cais(CaisSummary, Arr(<<CompleteAccount, CompleteAccount>>)),
                            UNDEF))
      [] d = "fixture" ->
           Document(Profile(HeaderOf(N2), UNDEF, Applicant(Pan),
                            Cais(CaisSummary, FixtureAccount),
                            Score(Str(<<"7", "1", "9">>), Text("H"))))
      [] d = "nonumber" ->
           Document(Profile(UNDEF, UNDEF, Applicant(Pan),
                            Cais(CaisSummary, CompleteAccount), UNDEF))
      [] d = "barefixture" ->
           Document(Profile(UNDEF, UNDEF, Applicant(Pan),
                            Cais(CaisSummary, FixtureAccount),
                            Score(Str(<<"7", "1", "9">>), Text("H"))))
      [] d = "invalid" -> ObjOf([invalid |-> Str(<<"c", "o", "n", "t", "e", "n", "t">>)])
      [] d = "wrapped" ->
           ObjOf([Wrapper |->
                    Document(Profile(HeaderOf(N1), UNDEF, Applicant(Pan),
                                     Cais(CaisSummary, CompleteAccount), UNDEF))])
      [] d = "badshape" ->
           Document(Profile(HeaderOf(N2), UNDEF, Applicant(Pan),
                            Cais(CaisSummary, BadShapeAccount), UNDEF))
      [] d = "noscore" ->
           Document(Profile(UNDEF, HeaderOf(N2), Applicant(Pan),
                            Cais(CaisSummary, CompleteAccount), UNDEF))
      [] d = "zeroscore" ->
           Document(Profile(HeaderOf(N2), UNDEF, Applicant(Pan),
                            Cais(CaisSummary, CompleteAccount), Score(Zero, UNDEF)))

\* req.file and req.body.xmlContent of an upload request.
Uploads ==
    {[file |-> FALSE, content |-> "empty"]}
        \cup {[file |-> TRUE, content |-> d] : d \in DocNames \cup {"empty"}}

(***************************************************************************)
(* The CreditReport model (models/CreditReport.ts) and its collection.     *)
(***************************************************************************)
RequiredString(v) == v.t = "str" /\ v.s # <<>>
OptionalString(v) == v.t \in {"str", "undef"}
RequiredNumber(v) == v.t = "num"
OptionalNumber(v) == v.t \in {"num", "undef"}

AddressSchema(a) ==
    /\ RequiredString(a.firstLine)
    /\ OptionalString(a.secondLine)
    /\ OptionalString(a.thirdLine)
    /\ RequiredString(a.city)
    /\ RequiredString(a.state)
    /\ RequiredString(a.pinCode)
    /\ RequiredString(a.country)

AccountHistorySchema(h) ==
    /\ RequiredNumber(h.year)
    /\ RequiredNumber(h.month)
    /\ OptionalNumber(h.daysPastDue)
    /\ OptionalString(h.assetClassification)

BasicDetailsSchema(b) ==
    /\ RequiredString(b.firstName)
    /\ RequiredString(b.lastName)
    /\ RequiredString(b.mobilePhone)
    /\ RequiredString(b.pan)
    /\ RequiredString(b.dateOfBirth)
    /\ OptionalString(b.gender)

ReportSummarySchema(s) ==
    /\ RequiredNumber(s.totalAccounts)
    /\ RequiredNumber(s.activeAccounts)
    /\ RequiredNumber(s.closedAccounts)
    /\ OptionalNumber(s.defaultAccounts)
    /\ OptionalNumber(s.outstandingBalanceSecured)
    /\ OptionalNumber(s.outstandingBalanceUnsecured)
    /\ RequiredNumber(s.outstandingBalanceAll)
    /\ OptionalNumber(s.enquiriesLast7Days)
    /\ OptionalNumber(s.enquiriesLast30Days)
    /\ OptionalNumber(s.enquiriesLast90Days)
    /\ OptionalNumber(s.enquiriesLast180Days)

CreditAccountSchema(a) ==
    /\ RequiredString(a.subscriberName)
    /\ RequiredString(a.accountNumber)
    /\ RequiredString(a.portfolioType)
    /\ RequiredString(a.accountType)
    /\ RequiredString(a.openDate)
    /\ OptionalNumber(a.creditLimit)
    /\ OptionalNumber(a.highestCredit)
    /\ RequiredNumber(a.currentBalance)
    /\ OptionalNumber(a.amountPastDue)
    /\ RequiredString(a.accountStatus)
    /\ RequiredString(a.paymentRating)
    /\ RequiredString(a.dateReported)
    /\ OptionalString(a.dateClosed)
    /\ OptionalNumber(a.repaymentTenure)
    /\ AddressSchema(a.address)
    /\ \A i \in 1..Len(a.accountHistory) : AccountHistorySchema(a.accountHistory[i])

\* Document validation on save: required paths are set (a required string is
\* not empty) and every path casts to its type.
CreditReportSchema(report) ==
    /\ RequiredString(report.reportNumber)
    /\ RequiredString(report.reportDate)
    /\ RequiredString(report.reportTime)
    /\ RequiredString(report.version)
    /\ BasicDetailsSchema(report.basicDetails)
    /\ ReportSummarySchema(report.reportSummary)
    /\ \A i \in 1..Len(report.creditAccounts) : CreditAccountSchema(report.creditAccounts[i])
    /\ OptionalNumber(report.creditScore)
    /\ OptionalString(report.creditScoreConfidence)

NoRecord == [id |-> 0]

\* CreditReport.findOne({ reportNumber })
findOne(records, reportNumber) ==
    IF \E rec \in records : rec.report.reportNumber = reportNumber
    THEN CHOOSE rec \in records : rec.report.reportNumber = reportNumber
    ELSE NoRecord

DuplicateKey_NoIndex(records, report) == FALSE

\* reportNumber: { unique: true }: the index rejects a second record with the key.
DuplicateKey(records, report) ==
    \E rec \in records : rec.report.reportNumber = report.reportNumber

(***************************************************************************)
(* CreditReportController.uploadAndProcess, one action per await.          *)
(***************************************************************************)
Reqs == 1..MaxReqs

NoResponse == [status |-> 0]

Response(status, error, message, reportId, data) ==
    [status |-> status, error |-> error, message |-> message,
     reportId |-> reportId, data |-> data]

NoError == "none"

\* tmpFile: the uploaded file is on disk at req.file.path.
IdleRequest ==
    [pc |-> "idle", upload |-> [file |-> FALSE, content |-> "empty"], calls |-> <<>>,
     parsed |-> UNDEF, newId |-> 0, error |-> NoError, res |-> NoResponse,
     tmpFile |-> FALSE]

\* The catch block: every error thrown here is an Error, answered with its message.
Caught(name, message) ==
    [error |-> name,
     res |-> Response(500, "Processing failed", message, 0, UNDEF)]

\* The request answered. cleanupFile(filePath) runs before the 201 answer
\* (lines 104-107) and in the catch block (lines 130-133), and on no other
\* path.
Done(r, upload, calls, error, res) ==
    req' = [req EXCEPT ![r] = [@ EXCEPT !.pc = "done", !.upload = upload, !.calls = calls,
                                        !.error = error, !.res = res,
                                        !.tmpFile = IF res.status = 201 \/ error # NoError
                                                    THEN FALSE
                                                    ELSE upload.file]]

UploadStart_SkipValidation(r) ==
    /\ req[r].pc = "idle"
    /\ \E upload \in Uploads :
         IF ~upload.file
         THEN Done(r, upload, <<>>, NoError,
                   Response(400, "No file uploaded", <<"Please upload an XML file">>, 0, UNDEF))
         ELSE IF upload.content = "empty"
         THEN Done(r, upload, <<>>, NoError,
                   Response(400, "Invalid file content", <<"Unable to read XML content">>,
                            0, UNDEF))
         ELSE req' = [req EXCEPT ![r] = [@ EXCEPT !.pc = "parse", !.upload = upload,
                                                  !.calls = <<"validateXMLStructure">>,
                                                  !.tmpFile = TRUE]]
    /\ UNCHANGED <<call, store, nextId, now>>

\* Lines 52-81: the file and content checks and the structural gate.
startUpload(r, upload) ==
    IF ~upload.file
    THEN Done(r, upload, <<>>, NoError,
              Response(400, "No file uploaded", <<"Please upload an XML file">>, 0, UNDEF))
    ELSE IF upload.content = "empty"
    THEN Done(r, upload, <<>>, NoError,
              Response(400, "Invalid file content", <<"Unable to read XML content">>,
                       0, UNDEF))
    ELSE IF ~validateXMLStructure(DocText(upload.content))
    THEN Done(r, upload, <<"validateXMLStructure">>, NoError,
              Response(400, "Invalid XML structure",
                       <<"The uploaded file is not a valid Experian credit report">>,
                       0, UNDEF))
    ELSE req' = [req EXCEPT ![r] = [@ EXCEPT !.pc = "parse", !.upload = upload,
                                             !.calls = <<"validateXMLStructure">>,
                                             !.tmpFile = TRUE]]

UploadStart(r) ==
    /\ req[r].pc = "idle"
    /\ \E upload \in Uploads : startUpload(r, upload)
    /\ UNCHANGED <<call, store, nextId, now>>

\* The request after parseXML settled: on to the duplicate check, or the catch.
afterParse(r, parsedData) ==
    IF ~parsedData.ok
    THEN Done(r, req[r].upload, Append(req[r].calls, "parseXML"),
              Caught("Error", parsedData.msg).error, Caught("Error", parsedData.msg).res)
    ELSE req' = [req EXCEPT ![r] = [@ EXCEPT !.pc = "findOne",
                                             !.calls = Append(req[r].calls, "parseXML"),
                                             !.parsed = parsedData.v]]

\* Line 84: await this.xmlParser.parseXML(xmlContent).
UploadParse(r) ==
    /\ req[r].pc = "parse"
    /\ afterParse(r, parseXML(DocTree(req[r].upload.content), now))
    /\ UNCHANGED <<call, store, nextId, now>>

UploadFindOne_Overwrite(r) ==
    /\ req[r].pc = "findOne"
    /\ IF findOne(store, req[r].parsed.reportNumber) # NoRecord
       THEN /\ Done(r, req[r].upload, Append(req[r].calls, "findOne"), NoError,
                    Response(409, "Report already exists", <<>>,
                             findOne(store, req[r].parsed.reportNumber).id, UNDEF))
            /\ store' = {IF rec.report.reportNumber = req[r].parsed.reportNumber
                         THEN [rec EXCEPT !.report = req[r].parsed] ELSE rec : rec \in store}
            /\ UNCHANGED nextId
       ELSE /\ req' = [req EXCEPT ![r] = [@ EXCEPT !.pc = "save",
                                                   !.calls = Append(req[r].calls, "findOne"),
                                                   !.newId = nextId]]
            /\ nextId' = nextId + 1
            /\ UNCHANGED store
    /\ UNCHANGED <<call, now>>

\* Lines 87-102: the duplicate check, then new CreditReport(parsedData).
UploadFindOne(r) ==
    /\ req[r].pc = "findOne"
    /\ LET parsedData == req[r].parsed
           calls == Append(req[r].calls, "findOne")
           existingReport == findOne(store, parsedData.reportNumber)
       IN  IF parsedData.reportNumber.t # "str"
           THEN /\ LET c == Caught("CastError", <<"Cast to string failed for path reportNumber">>)
                   IN  Done(r, req[r].upload, calls, c.error, c.res)
                /\ UNCHANGED nextId
           ELSE IF existingReport # NoRecord
           THEN /\ Done(r, req[r].upload, calls, NoError,
                        Response(409, "Report already exists",
                                 <<"A credit report with number ",
                                   parsedData.reportNumber.s, " already exists">>,
                                 existingReport.id, UNDEF))
                /\ UNCHANGED nextId
           ELSE /\ req' = [req EXCEPT ![r] = [@ EXCEPT !.pc = "save", !.calls = calls,
                                                       !.newId = nextId]]
                /\ nextId' = nextId + 1
    /\ UNCHANGED <<call, store, now>>

\* The condensed view of a saved report (lines 113-127).
Condensed(id, report) ==
    [reportId |-> id,
     reportNumber |-> report.reportNumber,
     reportDate |-> report.reportDate,
     basicDetails |->
         [name |-> Str(ToStr(report.basicDetails.firstName) \o <<" ">>
                         \o ToStr(report.basicDetails.lastName)),
          pan |-> report.basicDetails.pan,
          mobilePhone |-> report.basicDetails.mobilePhone],
     summary |->
         [totalAccounts |-> report.reportSummary.totalAccounts,
          creditScore |-> report.creditScore,
          totalBalance |-> report.reportSummary.outstandingBalanceAll]]

\* Line 103: await creditReport.save(), then the 201 answer.
UploadSave(r) ==
    /\ req[r].pc = "save"
    /\ LET report == req[r].parsed
           calls == Append(req[r].calls, "save")
       IN  IF ~CreditReportSchema(report)
           THEN /\ LET c == Caught("ValidationError", <<"CreditReport validation failed">>)
                   IN  Done(r, req[r].upload, calls, c.error, c.res)
                /\ UNCHANGED store
           ELSE IF DuplicateKey(store, report)
           THEN /\ LET c == Caught("MongoServerError",
                                   <<"E11000 duplicate key error collection: creditreports ",
                                     "index: reportNumber_1 dup key: ", report.reportNumber.s>>)
                   IN  Done(r, req[r].upload, calls, c.error, c.res)
                /\ UNCHANGED store
           ELSE /\ store' = store \cup {[id |-> req[r].newId, report |-> report,
                                         createdAt |-> now]}
                /\ Done(r, req[r].upload, calls, NoError,
                        Response(201, "",
                                 <<"Credit report processed and saved successfully">>,
                                 req[r].newId, Condensed(req[r].newId, report)))
    /\ UNCHANGED <<call, nextId, now>>

\* The millisecond clock that Date.now() reads.
Tick ==
    /\ now < MaxClock
    /\ now' = now + 1
    /\ UNCHANGED <<call, store, req, nextId>>

Init ==
    /\ call = Idle
    /\ store = {}
    /\ req = [r \in Reqs |-> IdleRequest]
    /\ nextId = 1
    /\ now = 0

\* Upload requests running concurrently.
Next ==
    \/ \E r \in Reqs : UploadStart(r)
    \/ \E r \in Reqs : UploadParse(r)
    \/ \E r \in Reqs : UploadFindOne(r)
    \/ \E r \in Reqs : UploadSave(r)
    \/ Tick

Spec == Init /\ [][Next]_vars

\* Upload requests one after the other, in the order of their numbers.
Quiet(r) ==
    /\ \A q \in Reqs : q < r => req[q].pc = "done"
    /\ \A q \in Reqs : q > r => req[q].pc = "idle"

NextSeq ==
    \/ \E r \in Reqs : Quiet(r) /\ UploadStart(r)
    \/ \E r \in Reqs : UploadParse(r)
    \/ \E r \in Reqs : UploadFindOne(r)
    \/ \E r \in Reqs : UploadSave(r)
    \/ Tick

SpecSeq == Init /\ [][NextSeq]_vars

SpecParser == Init /\ [][NextParser]_vars

(***************************************************************************)
(* The read and delete handlers of CreditReportController.  One such       *)
(* request at a time runs next to the uploads, its steps interleaved with  *)
(* theirs; `call` holds it and its answer.                                 *)
(***************************************************************************)
Null == [t |-> "null"]

\* No read or delete request is in progress.
Settled == IF call.op = "none" THEN TRUE ELSE call.pc = "done"

findById(records, id) ==
    IF \E rec \in records : rec.id = id
    THEN CHOOSE rec \in records : rec.id = id
    ELSE NoRecord

countDocuments_Scored(records) ==
    Cardinality({rec \in records : rec.report.creditScore.t = "num"})

countDocuments(records) == Cardinality(records)

InvalidId_AsNotFound ==
    Response(404, "Report not found", <<"Credit report not found">>, 0, UNDEF)

InvalidId ==
    Response(400, "Invalid ID", <<"Please provide a valid report ID">>, 0, UNDEF)

NotFound ==
    Response(404, "Report not found", <<"Credit report not found">>, 0, UNDEF)

getAccountTypeDescription(type) ==
    CASE type = Str(<<"1", "0">>) -> Str(<<"Credit Card">>)
      [] type = Str(<<"5", "1">>) -> Str(<<"Personal Loan">>)
      [] type = Str(<<"5", "2">>) -> Str(<<"Home Loan">>)
      [] type = Str(<<"5", "3">>) -> Str(<<"Auto Loan">>)
      [] type = Str(<<"5", "4">>) -> Str(<<"Business Loan">>)
      [] OTHER -> Str(<<"Account Type ">> \o ToStr(type))

getPortfolioTypeDescription(type) ==
    CASE type = Str(<<"R">>) -> Str(<<"Revolving">>)
      [] type = Str(<<"I">>) -> Str(<<"Installment">>)
      [] type = Str(<<"O">>) -> Str(<<"Open">>)
      [] OTHER -> type

getAccountStatusDescription(status) ==
    CASE status = Str(<<"1", "1">>) -> Str(<<"Active">>)
      [] status = Str(<<"1", "3">>) -> Str(<<"Closed">>)
      [] status = Str(<<"5", "3">>) -> Str(<<"Written Off">>)
      [] status = Str(<<"7", "1">>) -> Str(<<"Settled">>)
      [] OTHER -> Str(<<"Status ">> \o ToStr(status))

\* accountHistory is cut to its last twelve entries: slice(-12).
formatAccount(account) ==
    [subscriberName |-> account.subscriberName,
     accountNumber |-> account.accountNumber,
     accountType |-> getAccountTypeDescription(account.accountType),
     portfolioType |-> getPortfolioTypeDescription(account.portfolioType),
     openDate |-> account.openDate,
     creditLimit |-> account.creditLimit,
     highestCredit |-> account.highestCredit,
     currentBalance |-> account.currentBalance,
     amountPastDue |-> account.amountPastDue,
     accountStatus |-> getAccountStatusDescription(account.accountStatus),
     paymentRating |-> account.paymentRating,
     dateReported |-> account.dateReported,
     dateClosed |-> account.dateClosed,
     address |-> account.address,
     accountHistory |->
         IF Len(account.accountHistory) > 12
         THEN SubSeq(account.accountHistory, Len(account.accountHistory) - 11,
                     Len(account.accountHistory))
         ELSE account.accountHistory]

formatReportForResponse(rec) ==
    [id |-> rec.id,
     reportNumber |-> rec.report.reportNumber,
     reportDate |-> rec.report.reportDate,
     reportTime |-> rec.report.reportTime,
     version |-> rec.report.version,
     basicDetails |->
         [name |-> Str(ToStr(rec.report.basicDetails.firstName) \o <<" ">>
                         \o ToStr(rec.report.basicDetails.lastName)),
          firstName |-> rec.report.basicDetails.firstName,
          lastName |-> rec.report.basicDetails.lastName,
          mobilePhone |-> rec.report.basicDetails.mobilePhone,
          pan |-> rec.report.basicDetails.pan,
          dateOfBirth |-> rec.report.basicDetails.dateOfBirth,
          gender |-> rec.report.basicDetails.gender],
     creditScore |-> [score |-> rec.report.creditScore,
                      confidence |-> rec.report.creditScoreConfidence],
     reportSummary |->
         [accounts |->
              [total |-> rec.report.reportSummary.totalAccounts,
               active |-> rec.report.reportSummary.activeAccounts,
               closed |-> rec.report.reportSummary.closedAccounts,
               default |-> rec.report.reportSummary.defaultAccounts],
          outstandingBalance |->
              [secured |-> rec.report.reportSummary.outstandingBalanceSecured,
               unsecured |-> rec.report.reportSummary.outstandingBalanceUnsecured,
               total |-> rec.report.reportSummary.outstandingBalanceAll],
          enquiries |->
              [last7Days |-> rec.report.reportSummary.enquiriesLast7Days,
               last30Days |-> rec.report.reportSummary.enquiriesLast30Days,
               last90Days |-> rec.report.reportSummary.enquiriesLast90Days,
               last180Days |-> rec.report.reportSummary.enquiriesLast180Days]],
     creditAccounts |-> [i \in 1..Len(rec.report.creditAccounts) |->
                            formatAccount(rec.report.creditAccounts[i])],
     createdAt |-> rec.createdAt,
     updatedAt |-> rec.createdAt]

\* Lines 203-240, for req.params.id a string that is not 24 hex digits, or
\* the id numbered id.
GetReportById ==
    /\ Settled
    /\ \E param \in {[hex |-> FALSE, id |-> 0]}
                       \cup {[hex |-> TRUE, id |-> i] : i \in 1..MaxReqs} :
         call' = [op |-> "getReportById", pc |-> "done", param |-> param,
                  res |-> IF ~param.hex THEN InvalidId
                          ELSE IF findById(store, param.id) = NoRecord THEN NotFound
                          ELSE Response(200, "", <<>>, param.id,
                                        formatReportForResponse(
                                            findById(store, param.id)))]
    /\ UNCHANGED <<store, req, nextId, now>>

findByIdAndDelete_Keep(records, id) == records

\* CreditReport.findByIdAndDelete(id)
findByIdAndDelete(records, id) == {rec \in records : rec.id # id}

\* Lines 242-283.
DeleteReport ==
    /\ Settled
    /\ \E param \in {[hex |-> FALSE, id |-> 0]}
                       \cup {[hex |-> TRUE, id |-> i] : i \in 1..MaxReqs} :
         IF ~param.hex
         THEN /\ call' = [op |-> "deleteReport", pc |-> "done", param |-> param,
                           res |-> InvalidId]
              /\ UNCHANGED store
         ELSE /\ call' = [op |-> "deleteReport", pc |-> "done", param |-> param,
                           res |->
                               IF findById(store, param.id) = NoRecord THEN NotFound
                               ELSE Response(200, "",
                                             <<"Credit report deleted successfully">>,
                                             param.id,
                                             [reportId |-> param.id,
                                              reportNumber |->
                                                  findById(store, param.id)
                                                      .report.reportNumber])]
              /\ store' = findByIdAndDelete(store, param.id)
    /\ UNCHANGED <<req, nextId, now>>

RECURSIVE sumCreditScore(_)
sumCreditScore(records) ==
    IF records = {} THEN 0
    ELSE LET rec == CHOOSE x \in records : TRUE
         IN  rec.report.creditScore.n + sumCreditScore(records \ {rec})

\* The $group stage with $avg: no group for no input, else the mean as the
\* fraction sum / n.
avgScoreOf(matched) ==
    IF matched = {} THEN <<>>
    ELSE <<[sum |-> sumCreditScore(matched), n |-> Cardinality(matched)]>>

\* Math.round: the nearest integer, a half going up.
round(fraction) == (2 * fraction.sum + fraction.n) \div (2 * fraction.n)

\* averageScore[0]?.avgScore ? Math.round(averageScore[0].avgScore) : null
averageCreditScoreOf_ZeroWhenEmpty(averageScore) ==
    IF averageScore # <<>> /\ averageScore[1].sum # 0
    THEN Num(round(averageScore[1]))
    ELSE Num(0)

averageCreditScoreOf(averageScore) ==
    IF averageScore # <<>> /\ averageScore[1].sum # 0
    THEN Num(round(averageScore[1]))
    ELSE Null

RECURSIVE sumField(_, _)
sumField(records, k) ==
    IF records = {} THEN 0
    ELSE LET rec == CHOOSE x \in records : TRUE
         IN  rec.report.reportSummary[k].n + sumField(records \ {rec}, k)

\* The $group stage with the three $sum accumulators.
accountsSummaryOf(records) ==
    IF records = {} THEN <<>>
    ELSE <<[totalActiveAccounts |-> sumField(records, "activeAccounts"),
            totalClosedAccounts |-> sumField(records, "closedAccounts"),
            totalOutstandingBalance |-> sumField(records, "outstandingBalanceAll")]>>

\* accountsSummary[0]?.k || 0
totalOf(accountsSummary, k) ==
    IF accountsSummary = <<>> THEN 0 ELSE accountsSummary[1][k]

\* Line 287: await CreditReport.countDocuments().
SummaryCount ==
    /\ Settled
    /\ call' = [op |-> "getReportSummary", pc |-> "average", seen |-> <<store>>,
                totalReports |-> countDocuments(store)]
    /\ UNCHANGED <<store, req, nextId, now>>

\* Lines 288-291: the aggregate over the records that pass
\* { creditScore: { $exists: true, $ne: null } }.
SummaryAverage ==
    /\ call.op = "getReportSummary"
    /\ call.pc = "average"
    /\ call' = [op |-> "getReportSummary", pc |-> "accounts",
                seen |-> Append(call.seen, store),
                totalReports |-> call.totalReports,
                averageScore |->
                    avgScoreOf({rec \in store : rec.report.creditScore.t = "num"})]
    /\ UNCHANGED <<store, req, nextId, now>>

\* Lines 293-313: the aggregate of the account totals, then the answer.
SummaryAccounts ==
    /\ call.op = "getReportSummary"
    /\ call.pc = "accounts"
    /\ call' = [op |-> "getReportSummary", pc |-> "done",
                seen |-> Append(call.seen, store),
                res |-> Response(200, "", <<>>, 0,
                    [totalReports |-> call.totalReports,
                     averageCreditScore |-> averageCreditScoreOf(call.averageScore),
                     totalActiveAccounts |->
                         totalOf(accountsSummaryOf(store), "totalActiveAccounts"),
                     totalClosedAccounts |->
                         totalOf(accountsSummaryOf(store), "totalClosedAccounts"),
                     totalOutstandingBalance |->
                         totalOf(accountsSummaryOf(store), "totalOutstandingBalance")])]
    /\ UNCHANGED <<store, req, nextId, now>>

\* parseInt(req.query[k]) || fallback
queryNumber(text, fallback) ==
    IF Truthy(parseInt(text)) THEN parseInt(text).n ELSE fallback

\* The orders that sort({ createdAt: -1 }) may give: records with equal
\* createdAt come in any order.
sortedByCreatedAt(records) ==
    {q \in [1..Cardinality(records) -> records] :
        /\ \A i, j \in DOMAIN q : i # j => q[i] # q[j]
        /\ \A i, j \in DOMAIN q : i < j => q[i].createdAt >= q[j].createdAt}

\* Lines 158-182: skip((page - 1) * limit).limit(limit) over the sorted
\* records q, and the entries of the list, one for each report found.
found(page, limit, q) ==
    LET skip == (page - 1) * limit
        reports == SubSeq(q, skip + 1,
                          IF skip + limit < Len(q) THEN skip + limit ELSE Len(q))
    IN
    [op |-> "getAllReports", pc |-> "count", page |-> page, limit |-> limit,
     reports |->
         [i \in DOMAIN reports |->
             [id |-> reports[i].id,
              reportNumber |-> reports[i].report.reportNumber,
              reportDate |-> reports[i].report.reportDate,
              name |-> Str(ToStr(reports[i].report.basicDetails.firstName) \o <<" ">>
                             \o ToStr(reports[i].report.basicDetails.lastName)),
              pan |-> reports[i].report.basicDetails.pan,
              mobilePhone |-> reports[i].report.basicDetails.mobilePhone,
              creditScore |-> reports[i].report.creditScore,
              totalAccounts |-> reports[i].report.reportSummary.totalAccounts,
              totalBalance |-> reports[i].report.reportSummary.outstandingBalanceAll,
              createdAt |-> reports[i].createdAt]]]

\* Lines 156-164: the page of reports, for req.query.page and
\* req.query.limit absent, '0' and '1', or '2' and '1'.
ListFind ==
    /\ Settled
    /\ \E query \in {[page |-> UNDEF, limit |-> UNDEF],
                      [page |-> Str(<<"0">>), limit |-> Str(<<"1">>)],
                      [page |-> Str(<<"2">>), limit |-> Str(<<"1">>)]},
          q \in sortedByCreatedAt(store) :
         call' = found(queryNumber(query.page, 1), queryNumber(query.limit, 10), q)
    /\ UNCHANGED <<store, req, nextId, now>>

\* Lines 166-191: the count of all reports, then the answer, with
\* Math.ceil(total / limit) as (total + limit - 1) \div limit.
ListCount ==
    /\ call.op = "getAllReports"
    /\ call.pc = "count"
    /\ call' = [op |-> "getAllReports", pc |-> "done",
                res |-> Response(200, "", <<>>, 0,
                                 [reports |-> call.reports,
                                  pagination |->
                                      [currentPage |-> call.page,
                                       totalPages |->
                                           (countDocuments(store) + call.limit - 1)
                                               \div call.limit,
                                       totalReports |-> countDocuments(store),
                                       hasNextPage |->
                                           call.page <
                                               (countDocuments(store) + call.limit - 1)
                                                   \div call.limit,
                                       hasPrevPage |-> call.page > 1]])]
    /\ UNCHANGED <<store, req, nextId, now>>

\* Uploads one after the other, the read and delete requests next to them,
\* and the clock advancing between requests.
NextCrud ==
    \/ \E r \in Reqs, d \in {"complete", "noscore", "zeroscore", "fixture"} :
          /\ Quiet(r)
          /\ req[r].pc = "idle"
          /\ startUpload(r, [file |-> TRUE, content |-> d])
          /\ UNCHANGED <<call, store, nextId, now>>
    \/ \E r \in Reqs : UploadParse(r)
    \/ \E r \in Reqs : UploadFindOne(r)
    \/ \E r \in Reqs : UploadSave(r)
    \/ (\A r \in Reqs : req[r].pc \in {"idle", "done"}) /\ Settled /\ Tick
    \/ GetReportById
    \/ DeleteReport
    \/ SummaryCount
    \/ SummaryAverage
    \/ SummaryAccounts
    \/ ListFind
    \/ ListCount

SpecCrud == Init /\ [][NextCrud]_vars

(***************************************************************************)
(* The Database singleton (config/database.ts).  `call` holds the instance *)
(* and what its last operation did: isConnected is the flag, open the      *)
(* state of the mongoose connection, listening whether connect has         *)
(* registered the 'error' and 'disconnected' handlers, attempts and closes *)
(* the calls of mongoose.connect and of mongoose.connection.close so far,  *)
(* rejected whether the mongoose call of the last operation failed and     *)
(* threw whether the operation threw; `store` holds the collections.       *)
(***************************************************************************)
InitDatabase ==
    /\ \E env \in {"test", "development", "production"} :
         call = [op |-> "Database", NODE_ENV |-> env, isConnected |-> FALSE,
                 open |-> FALSE, listening |-> FALSE, attempts |-> 0, closes |-> 0,
                 last |-> "getInstance", rejected |-> FALSE, threw |-> FALSE]
    /\ store \in {{}, {[id |-> 1], [id |-> 2]}}
    /\ req = [r \in Reqs |-> IdleRequest]
    /\ nextId = 1
    /\ now = 0

connect_FlagBeforeAttempt ==
    /\ IF call.isConnected
       THEN call' = [call EXCEPT !.last = "connect", !.rejected = FALSE, !.threw = FALSE]
       ELSE /\ call.attempts < MaxCalls
            /\ \E rejects \in BOOLEAN :
                 call' = [call EXCEPT !.last = "connect",
                                      !.attempts = @ + 1,
                                      !.rejected = rejects,
                                      !.threw = rejects,
                                      !.isConnected = TRUE,
                                      !.open = IF rejects THEN @ ELSE TRUE,
                                      !.listening = IF rejects THEN @ ELSE TRUE]
    /\ UNCHANGED <<store, req, nextId, now>>

\* Lines 17-59: return when the flag is set; else await mongoose.connect,
\* which resolves or rejects; on success set the flag and register the
\* handlers, on failure clear the flag and rethrow.
connect ==
    /\ IF call.isConnected
       THEN call' = [call EXCEPT !.last = "connect", !.rejected = FALSE, !.threw = FALSE]
       ELSE /\ call.attempts < MaxCalls
            /\ \E rejects \in BOOLEAN :
                 call' = [call EXCEPT !.last = "connect",
                                      !.attempts = @ + 1,
                                      !.rejected = rejects,
                                      !.threw = rejects,
                                      !.isConnected = ~rejects,
                                      !.open = IF rejects THEN @ ELSE TRUE,
                                      !.listening = IF rejects THEN @ ELSE TRUE]
    /\ UNCHANGED <<store, req, nextId, now>>

\* Lines 61-74: return when the flag is clear; else await
\* mongoose.connection.close(), which resolves or rejects; on success clear
\* the flag, on failure rethrow with the flag as it was.
disconnect ==
    /\ IF ~call.isConnected
       THEN call' = [call EXCEPT !.last = "disconnect", !.rejected = FALSE, !.threw = FALSE]
       ELSE /\ call.closes < MaxCalls
            /\ \E rejects \in BOOLEAN :
                 call' = [call EXCEPT !.last = "disconnect",
                                      !.closes = @ + 1,
                                      !.rejected = rejects,
                                      !.threw = rejects,
                                      !.isConnected = IF rejects THEN @ ELSE FALSE,
                                      !.open = IF rejects THEN @ ELSE FALSE]
    /\ UNCHANGED <<store, req, nextId, now>>

\* Lines 38-41: the 'error' event of the connection, handled once connect has
\* registered the handler.
onError ==
    /\ call.open
    /\ call' = [call EXCEPT !.last = "error", !.rejected = FALSE, !.threw = FALSE,
                            !.isConnected = IF call.listening THEN FALSE ELSE @]
    /\ UNCHANGED <<store, req, nextId, now>>

\* Lines 43-46: the 'disconnected' event of the connection.
onDisconnected ==
    /\ call.open
    /\ call' = [call EXCEPT !.last = "disconnected", !.rejected = FALSE, !.threw = FALSE,
                            !.open = FALSE,
                            !.isConnected = IF call.listening THEN FALSE ELSE @]
    /\ UNCHANGED <<store, req, nextId, now>>

\* Lines 80-92: throw unless NODE_ENV is 'test'; else deleteMany({}) on every
\* collection of mongoose.connection.db, which is undefined, so that the
\* operation throws, while the connection is not open.
clearDatabase ==
    /\ IF call.NODE_ENV # "test" \/ ~call.open
       THEN /\ call' = [call EXCEPT !.last = "clearDatabase", !.rejected = FALSE,
                                    !.threw = TRUE]
            /\ UNCHANGED store
       ELSE /\ call' = [call EXCEPT !.last = "clearDatabase", !.rejected = FALSE,
                                    !.threw = FALSE]
            /\ store' = {}
    /\ UNCHANGED <<req, nextId, now>>

NextDatabase ==
    \/ connect
    \/ disconnect
    \/ onError
    \/ onDisconnected
    \/ clearDatabase

SpecDatabase == InitDatabase /\ [][NextDatabase]_vars

(***************************************************************************)
(* Properties.                                                             *)
(***************************************************************************)
AllSteps == <<"validateXMLStructure", "parseXML", "findOne", "save">>

\* C1: Under any interleaving of upload requests whose documents map to the
\* same reportNumber, at most one of them is answered 201, and the store
\* never holds two records with the same reportNumber.
AtMostOncePerReportNumber ==
    /\ \A a, b \in store : a.report.reportNumber = b.report.reportNumber => a = b
    /\ \A p, q \in Reqs :
         (p # q /\ req[p].res.status = 201 /\ req[q].res.status = 201)
            => req[p].parsed.reportNumber # req[q].parsed.reportNumber

\* Two requests with the same reportNumber both passed the duplicate check
\* and both ran save; one was answered 201 and the other was not.
RaceOnOneReportNumber ==
    \E p, q \in Reqs :
        /\ p # q
        /\ req[p].pc = "done" /\ req[q].pc = "done"
        /\ req[p].calls = AllSteps /\ req[q].calls = AllSteps
        /\ req[p].parsed.reportNumber = req[q].parsed.reportNumber
        /\ req[p].res.status = 201
        /\ req[q].res.status # 201

\* C2: A request whose save is rejected by the unique index on reportNumber
\* is answered as a conflict: 409 'Report already exists' with the identity
\* of the existing record.
RaceLoserSeesConflict ==
    \A r \in Reqs :
        req[r].error = "MongoServerError"
            => /\ req[r].res.status = 409
               /\ req[r].res.error = "Report already exists"
               /\ req[r].res.reportId = findOne(store, req[r].parsed.reportNumber).id

\* The document of upload d carries a ReportNumber, at either location.
CarriesReportNumber(d) ==
    \/ Truthy(Get(Get(Get(DocTree(d), "INProfileResponse"), "CreditProfileHeader"),
                  "ReportNumber"))
    \/ Truthy(Get(Get(Get(DocTree(d), "INProfileResponse"), "Header"), "ReportNumber"))

\* C3: Of two sequential ingestions of the same document that carries a
\* reportNumber (and passes the structural gate and the mapper), the first is
\* answered 201, the second 409 with the identity of the first one's record,
\* and the store then holds exactly one record with that reportNumber.
SecondIdenticalIngestionConflicts ==
    ( /\ req[1].pc = "done" /\ req[2].pc = "done"
      /\ req[1].upload.file
      /\ req[1].upload = req[2].upload
      /\ req[1].upload.content \in DocNames
      /\ CarriesReportNumber(req[1].upload.content)
      /\ Len(req[1].calls) >= 3 )
        => /\ req[1].res.status = 201
           /\ req[2].res.status = 409
           /\ req[2].res.reportId = req[1].res.reportId
           /\ Cardinality({rec \in store :
                             rec.report.reportNumber = req[1].parsed.reportNumber}) = 1

\* C4: Each request runs validate, map, duplicate check and save in this
\* order and stops at the first step that fails: a text the validator rejects
\* is answered with the format error and nothing else is called, a found
\* duplicate is answered 409 without a save, and a stored record comes from a
\* request that ran all four steps.
StepsInOrder ==
    \A r \in Reqs :
        /\ \E k \in 0..4 : req[r].calls = SubSeq(AllSteps, 1, k)
        /\ ( /\ req[r].pc # "idle"
             /\ req[r].upload.file
             /\ req[r].upload.content \in DocNames
             /\ ~validateXMLStructure(DocText(req[r].upload.content)) )
               => /\ req[r].pc = "done"
                  /\ req[r].res.status = 400
                  /\ req[r].res.error = "Invalid XML structure"
                  /\ req[r].calls = <<"validateXMLStructure">>
        /\ req[r].res.status = 409 => req[r].calls = SubSeq(AllSteps, 1, 3)
        /\ \A rec \in store :
             rec.id = req[r].newId => req[r].calls = AllSteps /\ req[r].res.status = 201

\* One request was stopped by the validator and another one stored a record.
StoppedAtValidator ==
    \E r, q \in Reqs :
        /\ req[r].res.status = 400
        /\ req[r].calls = <<"validateXMLStructure">>
        /\ req[q].res.status = 201
        /\ \E rec \in store : rec.id = req[q].newId

\* pat occurs in text at some offset.
Occurs(pat, text) ==
    \E i \in 0..(Len(text) - Len(pat)) : \A j \in 1..Len(pat) : text[i + j] = pat[j]

\* C5: validateXMLStructure returns true exactly when the text contains the
\* root marker tag and at least one of the three required section names.
ValidatorPolicy ==
    call.op = "validateXMLStructure"
        => (call.out <=> /\ Occurs(RootMarker, call.in)
                         /\ \/ Occurs(CreditProfileHeaderName, call.in)
                            \/ Occurs(CurrentApplicationName, call.in)
                            \/ Occurs(CaisAccountName, call.in))

\* A text with the root tag and one section only is accepted.
AcceptedWithOneSection ==
    /\ call.op = "validateXMLStructure"
    /\ call.out
    /\ Occurs(CaisAccountName, call.in)
    /\ ~Occurs(CreditProfileHeaderName, call.in)
    /\ ~Occurs(CurrentApplicationName, call.in)

\* C6: formatDate maps a string of 8 digits to its characters 0-3, '-', 4-5,
\* '-', 6-7 (the form DDDD-DD-DD), and returns a string of any other length
\* unchanged.
DateNormalised ==
    (call.op = "formatDate" /\ call.in.t = "str")
        => IF Len(call.in.s) = 8
           THEN (\A i \in 1..8 : IsDigit(call.in.s[i]))
                  => /\ call.out.ok
                     /\ call.out.v.t = "str"
                     /\ Len(call.out.v.s) = 10
                     /\ \A i \in 1..4 : call.out.v.s[i] = call.in.s[i]
                     /\ call.out.v.s[5] = "-"
                     /\ \A i \in 5..6 : call.out.v.s[i + 1] = call.in.s[i]
                     /\ call.out.v.s[8] = "-"
                     /\ \A i \in 7..8 : call.out.v.s[i + 2] = call.in.s[i]
                     /\ \A i \in {1, 2, 3, 4, 6, 7, 9, 10} : IsDigit(call.out.v.s[i])
           ELSE call.out = Ok(call.in)

\* An 8-digit date with different digits was split.
EightDigitsSplit ==
    /\ call.op = "formatDate"
    /\ call.in = Str(<<"7", "0", "0", "7", "0", "7", "7", "0">>)
    /\ call.out = Ok(Str(<<"7", "0", "0", "7", "-", "0", "7", "-", "7", "0">>))

\* C7: An account entry given as a single object and the same entry given as
\* a one-element array are mapped to the same creditAccounts sequence, of
\* length 1.
SingleEqualsOneElementArray ==
    call.op = "extractCreditAccounts"
        => /\ call.single = call.array
           /\ call.single.ok => Len(call.single.v) = 1

\* An entry with an address and a two-entry history was mapped.
AccountMappedFromBothShapes ==
    /\ call.op = "extractCreditAccounts"
    /\ call.array.ok
    /\ Len(call.array.v) = 1
    /\ call.array.v[1].currentBalance = Num(80000)
    /\ call.array.v[1].address.city = Str(<<"P", "U", "N", "E">>)
    /\ Len(call.array.v[1].accountHistory) = 2

\* C8: With no SCORE section, or a SCORE section without BureauScore, the
\* mapped creditScore is undefined (not 0); it is a number only when the
\* source has a BureauScore.
ScoreAbsentWhenMissing ==
    (call.op = "parseXML" /\ call.out.ok)
        => /\ Get(Get(Get(call.in, "INProfileResponse"), "SCORE"), "BureauScore") = UNDEF
                => call.out.v.creditScore = UNDEF
           /\ call.out.v.creditScore.t = "num"
                => Get(Get(Get(call.in, "INProfileResponse"), "SCORE"), "BureauScore") # UNDEF

\* A document with accounts and no SCORE section was mapped.
MappedWithoutScoreSection ==
    /\ call.op = "parseXML"
    /\ call.out.ok
    /\ Get(Get(call.in, "INProfileResponse"), "SCORE") = UNDEF
    /\ Len(call.out.v.creditAccounts) = 2
    /\ call.out.v.creditScore = UNDEF

\* C9, as stated: parseXML throws when the tree has no INProfileResponse
\* element and returns a record for every tree that has one.
MapperFailsOnlyOnMissingRoot ==
    (call.op = "parseXML" /\ call.in.t = "obj")
        => IF "INProfileResponse" \in DOMAIN call.in.f
           THEN call.out.ok
           ELSE ~call.out.ok /\ call.out.msg = <<"Failed to parse XML: ">> \o RootNotFound

\* A date value that formatDate takes without throwing.
DateShape(v) == v.t = "str" \/ Length(v) # Num(8)

\* An account entry whose Subscriber_Name and dates have the expected shape.
EntryShape(e) ==
    /\ Get(e, "Subscriber_Name").t \in {"undef", "str"}
    /\ DateShape(Get(e, "Open_Date"))
    /\ DateShape(Get(e, "Date_Reported"))
    /\ DateShape(Get(e, "Date_Closed"))
    /\ DateShape(Get(Get(e, "CAIS_Holder_Details"), "Date_of_birth"))

ProfileShape(pr) ==
    /\ DateShape(Get(Get(Get(Get(pr, "Current_Application"), "Current_Application_Details"),
                         "Current_Applicant_Details"), "Date_Of_Birth_Applicant"))
    /\ IF IsArray(accountDetailsOf(pr))
       THEN \A i \in 1..Len(accountDetailsOf(pr).q) : EntryShape(accountDetailsOf(pr).q[i])
       ELSE EntryShape(accountDetailsOf(pr))

\* C9, amended: parseXML throws 'INProfileResponse not found' when the
\* element is missing or empty; for a non-empty element it returns a record,
\* whatever sections and fields are missing, unless a Subscriber_Name is not
\* plain text or a date is a non-text value of length 8, and then the error
\* is wrapped as 'Failed to parse XML: ...'.
MapperFailsOnMissingOrEmptyRoot ==
    (call.op = "parseXML" /\ call.in.t = "obj")
        => /\ ~Truthy(Get(call.in, "INProfileResponse"))
                => /\ ~call.out.ok
                   /\ call.out.msg = <<"Failed to parse XML: ">> \o RootNotFound
           /\ ( /\ Truthy(Get(call.in, "INProfileResponse"))
                /\ ProfileShape(Get(call.in, "INProfileResponse")) )
                => call.out.ok
           /\ ~call.out.ok => call.out.msg[1] = "Failed to parse XML: "

\* An empty INProfileResponse element was rejected as not found.
EmptyRootRejected ==
    /\ call.op = "parseXML"
    /\ call.in = Document(EmptyString)
    /\ ~call.out.ok
    /\ call.out.msg = <<"Failed to parse XML: ">> \o RootNotFound

\* The answer to a mapper error.
ParsingErrorAnswer(res) ==
    /\ res.status = 500
    /\ res.error = "Processing failed"
    /\ Len(res.message) >= 2
    /\ res.message[1] = "Failed to parse XML: "

SummaryAnswered == call.op = "getReportSummary" /\ call.pc = "done"

\* The records with a creditScore among those the average was taken over.
ScoredSeen == {rec \in call.seen[2] : rec.report.creditScore.t = "num"}

\* C11: averageCreditScore is null exactly when no record read by the
\* average has a creditScore; otherwise it is the integer nearest to the mean
\* of the scores of the records that have one, a mean of 0 included.
AverageIsRoundedMean ==
    SummaryAnswered
        => /\ call.res.data.averageCreditScore = Null <=> ScoredSeen = {}
           /\ ScoredSeen # {}
                => /\ call.res.data.averageCreditScore.t = "num"
                   /\ 2 * Cardinality(ScoredSeen) * call.res.data.averageCreditScore.n
                          - Cardinality(ScoredSeen) <= 2 * sumCreditScore(ScoredSeen)
                   /\ 2 * sumCreditScore(ScoredSeen)
                        < 2 * Cardinality(ScoredSeen) * call.res.data.averageCreditScore.n
                            + Cardinality(ScoredSeen)

\* C12: A summary whose three reads all found the store empty answers
\* totalReports 0, averageCreditScore null and the three totals 0.
EmptyStoreSummary ==
    (SummaryAnswered /\ call.seen = <<{}, {}, {}>>)
        => /\ call.res.status = 200
           /\ call.res.data = [totalReports |-> 0, averageCreditScore |-> Null,
                               totalActiveAccounts |-> 0, totalClosedAccounts |-> 0,
                               totalOutstandingBalance |-> 0]

\* The summary was taken over a store that stayed empty.
SummaryOverEmptyStore ==
    /\ SummaryAnswered
    /\ call.seen = <<{}, {}, {}>>
    /\ call.res.data.totalReports = 0
    /\ call.res.data.averageCreditScore = Null

\* The record numbered id was created by an upload and is no longer stored.
WasDeleted(id) ==
    /\ \E q \in Reqs : req[q].res.status = 201 /\ req[q].newId = id
    /\ findById(store, id) = NoRecord

\* This step is the read or delete request op being answered.
Answers(op) == call' # call /\ call'.op = op /\ call'.pc = "done"

\* C13: A successful deleteReport removes exactly the record of that id, so
\* the count that getReportSummary reports is one less than before and the
\* other records are as they were; from then on the id stays absent and every
\* getReportById for it is answered 404.
DeleteThenNotFound ==
    [][ /\ (Answers("deleteReport") /\ call'.res.status = 200)
             => /\ findById(store, call'.param.id) # NoRecord
                /\ findById(store', call'.param.id) = NoRecord
                /\ store' = store \ {findById(store, call'.param.id)}
                /\ countDocuments(store') = countDocuments(store) - 1
        /\ (call' # call /\ call'.op = "getReportSummary" /\ call'.pc = "average")
             => call'.totalReports = Cardinality(store)
        /\ (Answers("getReportSummary"))
             => call'.res.data.totalReports = Cardinality(call'.seen[1])
        /\ (Answers("getReportById") /\ call'.param.hex)
             => (call'.res.status = 404 <=> findById(store, call'.param.id) = NoRecord)
        /\ \A id \in 1..MaxReqs : WasDeleted(id) => WasDeleted(id)'
      ]_vars

\* A record was deleted, a fetch of its id was answered 404, and another
\* record is still stored.
FetchedAfterDelete ==
    /\ call.op = "getReportById"
    /\ call.param.hex
    /\ WasDeleted(call.param.id)
    /\ call.res.status = 404
    /\ store # {}

\* C14: A stored record stays as it is until a successful deleteReport for
\* its id removes it; a record enters the store only at the save of an upload
\* answered 201, under an id not stored before; an upload that is rejected,
\* and every list, get and summary step, leave the store as it is.
RecordsImmutable ==
    [][ /\ \A rec \in store :
             \/ rec \in store'
             \/ /\ findById(store', rec.id) = NoRecord
                /\ Answers("deleteReport")
                /\ call'.param.id = rec.id
                /\ call'.res.status = 200
        /\ \A rec \in store' \ store :
             /\ findById(store, rec.id) = NoRecord
             /\ \E r \in Reqs : /\ req[r].pc = "save"
                                /\ req[r].newId = rec.id
                                /\ req[r].parsed = rec.report
                                /\ req'[r].res.status = 201
        /\ \A r \in Reqs :
             (req[r].pc # "done" /\ req'[r].pc = "done" /\ req'[r].res.status # 201)
                => store' = store
        /\ (call' # call /\ call'.op # "deleteReport") => store' = store
      ]_vars

\* An upload of another document with the number of a stored record was
\* answered 409 and the stored record still has the content it was saved with.
ConflictLeftRecordAsSaved ==
    \E r, q \in Reqs :
        /\ req[r].res.status = 409
        /\ req[q].res.status = 201
        /\ req[q].upload # req[r].upload
        /\ req[r].res.reportId = req[q].newId
        /\ \E rec \in store : rec.id = req[q].newId /\ rec.report = req[q].parsed

\* The identity field k at the primary and at the alternate location.
PrimaryField(k) == Get(Get(Get(call.in, "INProfileResponse"), "CreditProfileHeader"), k)
AlternateField(k) == Get(Get(Get(call.in, "INProfileResponse"), "Header"), k)

\* The primary value if present and non-empty, else the alternate one, else
\* the synthesized one.
Resolved(k, synthesized) ==
    IF PrimaryField(k) \notin {UNDEF, EmptyString} THEN PrimaryField(k)
    ELSE IF AlternateField(k) \notin {UNDEF, EmptyString} THEN AlternateField(k)
    ELSE synthesized

\* C15: Each of reportNumber, reportDate, reportTime and version of a mapped
\* record is the value at CreditProfileHeader if present and non-empty, else
\* the value at Header, else the synthesized value.
IdentityFieldsByChain ==
    (call.op = "parseXML" /\ call.out.ok)
        => /\ call.out.v.reportNumber =
                Resolved("ReportNumber", Str(<<"R", "P", "T", "_">> \o DigitsOf(call.at)))
           /\ call.out.v.reportDate = Resolved("ReportDate", IsoDate(call.at))
           /\ call.out.v.reportTime = Resolved("ReportTime", ClockTime(call.at))
           /\ call.out.v.version = Resolved("Version", Str(<<"V", "2", ".", "4">>))

\* The optional numeric field of the mapped account is undefined when the
\* source key is absent and 0 when the key is present but empty.
AbsentOrZero(mapped, source) ==
    /\ mapped = UNDEF <=> source = UNDEF
    /\ source = EmptyString => mapped = Num(0)

\* C16: creditLimit, highestCredit and repaymentTenure of a mapped account
\* are undefined exactly when the source key is absent, and 0 when the key is
\* present but empty.
OptionalNumbersAbsentOrZero ==
    (call.op = "extractCreditAccounts" /\ call.single.ok)
        => /\ AbsentOrZero(call.single.v[1].creditLimit, Get(call.in, "Credit_Limit_Amount"))
           /\ AbsentOrZero(call.single.v[1].highestCredit,
                           Get(call.in, "Highest_Credit_or_Original_Loan_Amount"))
           /\ AbsentOrZero(call.single.v[1].repaymentTenure, Get(call.in, "Repayment_Tenure"))

\* The mapped number is an integer, and 0 when the source is absent or empty.
IntegerOrZero(mapped, source) ==
    /\ mapped.t = "num"
    /\ mapped.n \in Int
    /\ source \in {UNDEF, EmptyString} => mapped = Num(0)
    /\ (source.t = "str" /\ parseInt(source) = NaN) => mapped = Num(0)

HistoryOf(account) ==
    IF Get(account, "CAIS_Account_History") = UNDEF THEN <<>>
    ELSE IF IsArray(Get(account, "CAIS_Account_History"))
    THEN Get(account, "CAIS_Account_History").q
    ELSE <<Get(account, "CAIS_Account_History")>>

AccountNumbersAreIntegers(mapped, account) ==
    /\ IntegerOrZero(mapped.currentBalance, Get(account, "Current_Balance"))
    /\ IntegerOrZero(mapped.amountPastDue, Get(account, "Amount_Past_Due"))
    /\ \A i \in 1..Len(mapped.accountHistory) :
         /\ IntegerOrZero(mapped.accountHistory[i].year, Get(HistoryOf(account)[i], "Year"))
         /\ IntegerOrZero(mapped.accountHistory[i].month, Get(HistoryOf(account)[i], "Month"))
         /\ IntegerOrZero(mapped.accountHistory[i].daysPastDue,
                          Get(HistoryOf(account)[i], "Days_Past_Due"))

\* C17: Every count and amount of a mapped record is an integer, 0 when the
\* source field is absent, empty or not parseable: the eleven reportSummary
\* fields, and each account's currentBalance, amountPastDue and history
\* year, month and daysPastDue.
CountsAndAmountsAreIntegers ==
    /\ (call.op = "parseXML" /\ call.out.ok)
         => \A k \in DOMAIN call.out.v.reportSummary :
              /\ call.out.v.reportSummary[k].t = "num"
              /\ call.out.v.reportSummary[k].n \in Int
    /\ (call.op = "extractCreditAccounts" /\ call.single.ok)
         => AccountNumbersAreIntegers(call.single.v[1], call.in)

\* C20: An address block given as a one-element array is mapped to the same
\* address as the block given as a single object, and a history block given
\* as a single object is mapped to the same accountHistory as the block given
\* as a one-element array.
NestedBlocksShapeIndependent ==
    (call.op = "extractCreditAccounts" /\ call.single.ok)
        => /\ ( /\ IsArray(Get(call.in, "CAIS_Holder_Address_Details"))
                /\ Len(Get(call.in, "CAIS_Holder_Address_Details").q) = 1 )
                => call.single.v[1].address =
                     addressOf(Get(call.in, "CAIS_Holder_Address_Details").q[1])
           /\ Get(call.in, "CAIS_Account_History").t = "obj"
                => call.single.v[1].accountHistory =
                     extractAccountHistory(Arr(<<Get(call.in, "CAIS_Account_History")>>))

\* The sections that the sample fixture fills, in the tree being mapped.
ApplicantIn == Get(Get(Get(Get(call.in, "INProfileResponse"), "Current_Application"),
                       "Current_Application_Details"), "Current_Applicant_Details")
CaisIn == Get(Get(call.in, "INProfileResponse"), "CAIS_Account")

\* s is a non-empty string of digits.
Digits(v) == v.t = "str" /\ v.s # <<>> /\ \A i \in 1..Len(v.s) : (\E d \in 1..10 : DigitChars[d] = v.s[i])

\* The digits of v read as a decimal number.
RECURSIVE Decimal(_)
Decimal(q) == IF q = <<>> THEN 0 ELSE 10 * Decimal(SubSeq(q, 1, Len(q) - 1)) + DigitVal(q[Len(q)])

\* The tree supplies what the fixture supplies.
SuppliesFixtureFields ==
    /\ PrimaryField("ReportNumber").t = "str" /\ PrimaryField("ReportNumber") # EmptyString
    /\ \A k \in {"First_Name", "Last_Name", "IncomeTaxPan"} :
         Get(ApplicantIn, k).t = "str" /\ Get(ApplicantIn, k) # EmptyString
    /\ Digits(Get(Get(Get(CaisIn, "CAIS_Summary"), "Credit_Account"), "CreditAccountTotal"))
    /\ Digits(Get(Get(Get(call.in, "INProfileResponse"), "SCORE"), "BureauScore"))
    /\ Get(CaisIn, "CAIS_Account_DETAILS").t = "obj"
    /\ Digits(Get(Get(CaisIn, "CAIS_Account_DETAILS"), "Current_Balance"))
    /\ Digits(Get(Get(CaisIn, "CAIS_Account_DETAILS"), "Amount_Past_Due"))

MapsFixtureFields ==
    /\ call.out.v.reportNumber = PrimaryField("ReportNumber")
    /\ call.out.v.basicDetails.firstName = Get(ApplicantIn, "First_Name")
    /\ call.out.v.basicDetails.lastName = Get(ApplicantIn, "Last_Name")
    /\ call.out.v.basicDetails.pan = Get(ApplicantIn, "IncomeTaxPan")
    /\ call.out.v.creditScore =
         Num(Decimal(Get(Get(Get(call.in, "INProfileResponse"), "SCORE"), "BureauScore").s))
    /\ call.out.v.reportSummary.totalAccounts =
         Num(Decimal(Get(Get(Get(CaisIn, "CAIS_Summary"), "Credit_Account"),
                         "CreditAccountTotal").s))
    /\ Len(call.out.v.creditAccounts) = 1
    /\ call.out.v.creditAccounts[1].currentBalance =
         Num(Decimal(Get(Get(CaisIn, "CAIS_Account_DETAILS"), "Current_Balance").s))
    /\ call.out.v.creditAccounts[1].amountPastDue =
         Num(Decimal(Get(Get(CaisIn, "CAIS_Account_DETAILS"), "Amount_Past_Due").s))

\* The values that the test expects of the sample fixture.
FixtureValues ==
    /\ call.out.ok
    /\ call.out.v.reportNumber =
         Str(<<"1", "5", "9", "5", "5", "0", "4", "7", "5", "8", "9", "1", "9">>)
    /\ call.out.v.basicDetails.firstName = Str(<<"S", "a", "g", "a", "r">>)
    /\ call.out.v.basicDetails.lastName = Str(<<"U", "g", "l", "e">>)
    /\ call.out.v.basicDetails.pan =
         Str(<<"A", "O", "Z", "P", "B", "0", "2", "4", "7", "S">>)
    /\ call.out.v.creditScore = Num(719)
    /\ call.out.v.reportSummary.totalAccounts = Num(4)
    /\ Len(call.out.v.creditAccounts) = 1
    /\ call.out.v.creditAccounts[1].currentBalance = Num(80000)
    /\ call.out.v.creditAccounts[1].amountPastDue = Num(4000)

\* C18: For a tree that supplies ReportNumber at CreditProfileHeader, the
\* applicant's First_Name, Last_Name and IncomeTaxPan, CreditAccountTotal,
\* BureauScore and one account with Current_Balance and Amount_Past_Due, the
\* mapped record has those strings and the integers parsed from those
\* sources, and one account; the sample fixture gives '1595504758919',
\* 'Sagar', 'Ugle', 'AOZPB0247S', 719, 4, 80000 and 4000.
FixtureMappedExactly ==
    /\ (call.op = "parseXML" /\ call.out.ok /\ SuppliesFixtureFields) => MapsFixtureFields
    /\ (call.op = "parseXML" /\ call.in = SampleTree) => FixtureValues

\* The sample fixture was mapped.
SampleFixtureMapped ==
    /\ call.op = "parseXML"
    /\ call.in = SampleTree
    /\ SuppliesFixtureFields
    /\ call.out.ok
    /\ call.out.v.creditAccounts[1].address.city = Str(<<"P", "U", "N", "E">>)

\* C19: An ingestion whose document passed the structural validation and was
\* mapped, with whatever fields absent, and that found no record of its
\* report number, is saved and answered 201: the absence of a field never
\* fails it.
FieldAbsenceNeverFailsIngestion ==
    \A r \in Reqs :
        (req[r].pc = "done" /\ req[r].calls = AllSteps)
            => /\ req[r].res.status = 201
               /\ \E rec \in store : rec.id = req[r].newId

\* The date is stored as YYYY-MM-DD when the source is a string of 8 digits,
\* and as the source when the source is a string of another length.
StoredAsDate(mapped, source) ==
    IF Digits(source) /\ Len(source.s) = 8
    THEN mapped = Str(SubSeq(source.s, 1, 4) \o <<"-">> \o SubSeq(source.s, 5, 6)
                        \o <<"-">> \o SubSeq(source.s, 7, 8))
    ELSE source.t = "str" => mapped = source

\* The first of the two values that is present and non-empty.
FirstOf(a, b) == IF a \notin {UNDEF, EmptyString} THEN a ELSE b

\* The dates of the accounts and the date of birth are stored as dates.
NestedDatesStored ==
    /\ (call.op = "parseXML" /\ call.out.ok)
         => StoredAsDate(call.out.v.basicDetails.dateOfBirth,
                         FirstOf(Get(ApplicantIn, "Date_Of_Birth_Applicant"),
                                 Get(Get(IF IsArray(Get(CaisIn, "CAIS_Account_DETAILS"))
                                         THEN At0(Get(CaisIn, "CAIS_Account_DETAILS"))
                                         ELSE Get(CaisIn, "CAIS_Account_DETAILS"),
                                         "CAIS_Holder_Details"), "Date_of_birth")))
    /\ (call.op = "extractCreditAccounts" /\ call.single.ok)
         => /\ StoredAsDate(call.single.v[1].openDate, Get(call.in, "Open_Date"))
            /\ StoredAsDate(call.single.v[1].dateReported, Get(call.in, "Date_Reported"))
            /\ StoredAsDate(call.single.v[1].dateClosed, Get(call.in, "Date_Closed"))

\* C21: Every date field of the mapped record (reportDate, dateOfBirth, and
\* each account's openDate, dateReported and dateClosed) whose source is a
\* string of 8 digits holds that string split as YYYY-MM-DD, and one whose
\* source has another length holds the source.
EveryDateStoredAsDate ==
    /\ NestedDatesStored
    /\ (call.op = "parseXML" /\ call.out.ok)
         => StoredAsDate(call.out.v.reportDate,
                         FirstOf(PrimaryField("ReportDate"), AlternateField("ReportDate")))

\* The applicant's and the holder's sections of a call of extractBasicDetails.
ApplicantOf == Get(Get(call.applicant, "Current_Application_Details"),
                   "Current_Applicant_Details")
HolderOf == Get(call.in, "CAIS_Holder_Details")

\* The first of the candidates, in their order, that is present and non-empty,
\* else ''.
FirstNonEmpty(candidates) ==
    IF \E i \in 1..Len(candidates) : candidates[i] \notin {UNDEF, EmptyString}
    THEN candidates[CHOOSE i \in 1..Len(candidates) :
                      /\ candidates[i] \notin {UNDEF, EmptyString}
                      /\ \A j \in 1..(i - 1) : candidates[j] \in {UNDEF, EmptyString}]
    ELSE EmptyString

\* C22: firstName is the applicant's First_Name if non-empty, else the first
\* account's holder First_Name_Non_Normalized, else the holder's
\* Surname_Non_Normalized, else ''; lastName is the applicant's Last_Name if
\* non-empty, else the holder's Surname_Non_Normalized, else the holder's
\* First_Name_Non_Normalized, else ''.
NamesByCandidateOrder ==
    (call.op = "extractBasicDetails" /\ call.single.ok /\ call.array.ok)
        => \A out \in {call.single.v, call.array.v} :
             /\ out.firstName =
                  FirstNonEmpty(<<Get(ApplicantOf, "First_Name"),
                                  Get(HolderOf, "First_Name_Non_Normalized"),
                                  Get(HolderOf, "Surname_Non_Normalized")>>)
             /\ out.lastName =
                  FirstNonEmpty(<<Get(ApplicantOf, "Last_Name"),
                                  Get(HolderOf, "Surname_Non_Normalized"),
                                  Get(HolderOf, "First_Name_Non_Normalized")>>)

\* A first name came from the holder's surname and a last name from the
\* holder's first name.
NameFromLaterCandidate ==
    /\ call.op = "extractBasicDetails"
    /\ call.single.ok
    /\ \/ /\ Get(ApplicantOf, "First_Name") = EmptyString
          /\ Get(HolderOf, "First_Name_Non_Normalized") = EmptyString
          /\ call.single.v.firstName = Str(<<"R", "a", "o">>)
       \/ /\ Get(ApplicantOf, "Last_Name") = UNDEF
          /\ Get(HolderOf, "Surname_Non_Normalized") = UNDEF
          /\ call.array.v.lastName = Str(<<"R", "a", "v", "i">>)

\* C23: gender is 'Male' when the holder's Gender_Code is "1", 'Female' when
\* it is "2", and has no value for every other code and when the code or its
\* section is missing.
GenderFromCode ==
    (call.op = "extractBasicDetails" /\ call.single.ok)
        => call.single.v.gender =
             CASE Get(HolderOf, "Gender_Code") = Str(<<"1">>) -> Str(<<"M", "a", "l", "e">>)
               [] Get(HolderOf, "Gender_Code") = Str(<<"2">>) ->
                    Str(<<"F", "e", "m", "a", "l", "e">>)
               [] OTHER -> UNDEF

\* C25: An account entry given as the single object and as the one-element
\* array yields the same basicDetails, the holder's and the phone section's
\* fallbacks included.
BasicDetailsShapeIndependent ==
    call.op = "extractBasicDetails" => call.single = call.array

\* C24: getReportById and deleteReport for a well-formed id that is not in
\* the store are answered 404 'Report not found', and for a malformed id 400
\* 'Invalid ID'; in both cases the store is left as it is.
UnknownOrMalformedIdLeavesStore ==
    [][ \A op \in {"getReportById", "deleteReport"} :
          Answers(op)
            => /\ ~call'.param.hex
                    => /\ call'.res.status = 400
                       /\ call'.res.error = "Invalid ID"
                       /\ store' = store
               /\ (call'.param.hex /\ findById(store, call'.param.id) = NoRecord)
                    => /\ call'.res.status = 404
                       /\ call'.res.error = "Report not found"
                       /\ store' = store
      ]_vars

\* A delete for an id that was deleted before was answered 404 while another
\* record is stored.
DeleteOfUnknownIdAnswered ==
    /\ call.op = "deleteReport"
    /\ call.pc = "done"
    /\ call.param.hex
    /\ WasDeleted(call.param.id)
    /\ call.res.status = 404
    /\ store # {}

\* C26: Every upload request that received a file ends with the temporary
\* file removed, whatever its answer: 201, 400, 409 or 500.
UploadedFileAlwaysRemoved ==
    \A r \in Reqs : (req[r].pc = "done" /\ req[r].upload.file) => ~req[r].tmpFile

\* The request uploads a document that carries no ReportNumber: the complete
\* one, or the test fixture less its number.
WithoutNumber(r) ==
    /\ req[r].upload.file
    /\ req[r].upload.content \in {"nonumber", "barefixture"}

\* C27: A document with no ReportNumber in CreditProfileHeader or Header is
\* keyed 'RPT_<clock>' with the clock read when it is mapped; two ingestions
\* of the same such document mapped at distinct clock readings are both saved
\* and leave two records, and one of them is answered 409 only when it was
\* mapped at the clock reading of a stored one.
SynthesizedKeyFollowsClock ==
    /\ [][ \A r \in Reqs :
             (WithoutNumber(r) /\ req[r].pc = "parse" /\ req'[r].pc = "findOne")
                => req'[r].parsed.reportNumber = Str(<<"R", "P", "T", "_">> \o DigitsOf(now))
         ]_vars
    /\ [](\A r \in Reqs :
            (WithoutNumber(r) /\ req[r].pc = "done")
              => /\ \A q \in Reqs \ {r} :
                      ( /\ req[q].upload = req[r].upload
                        /\ req[q].pc = "done"
                        /\ req[r].parsed.reportNumber # req[q].parsed.reportNumber )
                        => /\ req[r].res.status = 201 /\ req[q].res.status = 201
                           /\ \E a, b \in store :
                                /\ a # b
                                /\ a.report.reportNumber = req[r].parsed.reportNumber
                                /\ b.report.reportNumber = req[q].parsed.reportNumber
                 /\ req[r].res.status = 409
                      => \E q \in Reqs \ {r} :
                           /\ WithoutNumber(q)
                           /\ req[q].res.status = 201
                           /\ req[q].parsed.reportNumber = req[r].parsed.reportNumber)

\* This step answers an upload with 201.
Saves == \E r \in Reqs : req[r].pc # "done" /\ req'[r].pc = "done" /\ req'[r].res.status = 201

\* C28: From the empty store on, the number of stored records is the number
\* of uploads answered 201 less the number of deletes answered 200, rejected
\* uploads and failed deletes leaving it as it is, and this number is the
\* totalReports that getReportSummary and getAllReports count and report.
TotalReportsIsUploadsLessDeletes ==
    /\ store = {}
    /\ [][ /\ Cardinality(store') =
                Cardinality(store)
                  + (IF Saves THEN 1 ELSE 0)
                  - (IF Answers("deleteReport") /\ call'.res.status = 200 THEN 1 ELSE 0)
           /\ (call' # call /\ call'.op = "getReportSummary" /\ call'.pc = "average")
                => call'.totalReports = Cardinality(store)
           /\ Answers("getReportSummary")
                => call'.res.data.totalReports = call.totalReports
           /\ Answers("getAllReports")
                => call'.res.data.pagination.totalReports = Cardinality(store)
         ]_vars

\* After two uploads answered 201 and a delete answered 200 the summary
\* reports one record.
SummaryCountsAfterDelete ==
    /\ SummaryAnswered
    /\ call.res.data.totalReports = 1
    /\ call.seen = <<store, store, store>>
    /\ \A r \in Reqs : req[r].res.status = 201
    /\ \E id \in 1..MaxReqs : WasDeleted(id)

\* C29: An upload whose duplicate check runs is answered 409 exactly when a
\* record with its reportNumber is in the store at that moment; so once the
\* record with a reportNumber has been deleted, a later upload of that
\* reportNumber is saved and creates a record with a new id.
ReportNumberReusableAfterDelete ==
    /\ [][ \A r \in Reqs :
             (req[r].pc = "findOne" /\ req'[r].pc # "findOne"
                /\ req[r].parsed.reportNumber.t = "str")
                => /\ (req'[r].pc = "done" /\ req'[r].res.status = 409)
                        <=> \E rec \in store :
                              rec.report.reportNumber = req[r].parsed.reportNumber
                   /\ req'[r].pc = "save"
                        <=> \A rec \in store :
                              rec.report.reportNumber # req[r].parsed.reportNumber
         ]_vars
    /\ [](\A r, q \in Reqs :
            ( /\ r # q
              /\ req[q].res.status = 201
              /\ WasDeleted(req[q].newId)
              /\ req[r].pc = "done"
              /\ req[r].parsed # UNDEF
              /\ req[r].parsed.reportNumber = req[q].parsed.reportNumber
              /\ req[r].newId > req[q].newId )
              => /\ req[r].res.status = 201
                 /\ WasDeleted(req[r].newId)
                      \/ \E rec \in store : /\ rec.id = req[r].newId
                                            /\ rec.report = req[r].parsed)

\* This step is the operation or event named of the Database.
Does(name) == call' # call /\ call'.last = name

\* What holds of connect, of disconnect while not connected and of
\* clearDatabase: the flag is set only by a connect whose attempt succeeded;
\* connect with the flag set makes no attempt; a failed attempt leaves the
\* flag clear and throws; disconnect with the flag clear closes nothing;
\* clearDatabase outside 'test' throws and deletes nothing.
ConnectAndClearAsStated ==
    [][ /\ (~call.isConnected /\ call'.isConnected)
             => /\ Does("connect")
                /\ call'.attempts = call.attempts + 1
                /\ ~call'.rejected /\ ~call'.threw
        /\ (Does("connect") /\ call.isConnected)
             => /\ call'.attempts = call.attempts
                /\ call'.isConnected
                /\ ~call'.threw
        /\ (Does("connect") /\ call'.rejected)
             => ~call'.isConnected /\ call'.threw
        /\ (Does("disconnect") /\ ~call.isConnected)
             => call'.closes = call.closes /\ ~call'.threw
        /\ (Does("clearDatabase") /\ call.NODE_ENV # "test")
             => call'.threw /\ store' = store
        /\ call'.NODE_ENV = call.NODE_ENV
      ]_vars

\* C30: isConnected is true only after a connect that succeeded and before
\* the next disconnect, error or disconnected event; connect while connected
\* makes no connection attempt; disconnect while not connected closes
\* nothing; a failed connect leaves the flag false and throws; clearDatabase
\* throws and deletes nothing unless the environment is 'test'.
FlagFollowsLifecycle ==
    /\ ConnectAndClearAsStated
    /\ [][ (Does("disconnect") \/ Does("error") \/ Does("disconnected"))
             => ~call'.isConnected ]_vars

\* C30, amended: as above, except that a disconnect whose close fails throws
\* and leaves the flag as it was; the flag is false after a disconnect whose
\* close succeeded and after an error or disconnected event.
FlagFollowsLifecycleUnlessCloseFails ==
    /\ ConnectAndClearAsStated
    /\ [][ /\ (Does("error") \/ Does("disconnected")) => ~call'.isConnected
           /\ Does("disconnect")
                => IF call'.rejected
                   THEN call'.threw /\ call'.isConnected = call.isConnected
                   ELSE ~call'.isConnected
         ]_vars

\* A disconnect whose close failed has thrown with the flag still set.
FailedCloseLeavesFlag ==
    /\ call.op = "Database"
    /\ call.last = "disconnect"
    /\ call.rejected /\ call.threw
    /\ call.isConnected
    /\ call.closes > 0

====
